---- MODULE Spec2Model ----
(***************************************************************************)
(* Model of the cue geometry engine (backend/cues/geometry/core.py) and of *)
(* the record validators (backend/cues/geometry/validators.py).            *)
(*                                                                         *)
(* Units.  The source computes with Python floats; the model computes with *)
(* exact integers and rationals:                                           *)
(*   - axial positions are integers in thousandths of an inch (mil);       *)
(*   - radii and diameters are integers in hundredths of a millimetre;     *)
(*   - a quotient is a pair <<n, d>> with d # 0, kept in lowest terms, so  *)
(*     no rounding is hidden in the model.                                 *)
(* A raised Python exception is an outcome record of kind "raise".         *)
(***************************************************************************)
EXTENDS Integers, Sequences, FiniteSets, TLC

VARIABLES section, input_sections, sections, constructed, sections_data,
          section_data, pattern_data, transform, db, first, op, arg, result

vars == <<section, input_sections, sections, constructed, sections_data,
          section_data, pattern_data, transform, db, first, op, arg, result>>

(***************************************************************************)
(* Rationals                                                               *)
(***************************************************************************)
Abs(n) == IF n < 0 THEN -n ELSE n

Sgn(n) == IF n > 0 THEN 1 ELSE IF n < 0 THEN -1 ELSE 0

RECURSIVE GCD(_, _)
GCD(a, b) == IF b = 0 THEN a ELSE GCD(b, a % b)

\* the quotient n / d (d # 0) in lowest terms with a positive denominator
Rat(n, d) ==
    LET g == GCD(Abs(n), Abs(d))
    IN  <<Sgn(d) * (n \div g), Abs(d) \div g>>

RatSign(q) == Sgn(q[1]) * Sgn(q[2])

RatEq(p, q) == Rat(p[1], p[2]) = Rat(q[1], q[2])

\* p < q for quotients with non-zero denominators of any sign
RatLess(p, q) == p[1] * q[2] * Sgn(p[2]) * Sgn(q[2]) < q[1] * p[2] * Sgn(p[2]) * Sgn(q[2])

RatOfInt(n) == <<n, 1>>

RatAdd(p, q) == Rat(p[1] * q[2] + q[1] * p[2], p[2] * q[2])

RatSub(p, q) == Rat(p[1] * q[2] - q[1] * p[2], p[2] * q[2])

RatMul(p, q) == Rat(p[1] * q[1], p[2] * q[2])

\* p / q for q # 0
RatDiv(p, q) == Rat(p[1] * q[2], p[2] * q[1])

(***************************************************************************)
(* Outcomes of a call                                                      *)
(***************************************************************************)
NoValue == <<0, 1>>

Return(v) == [kind |-> "return", exc |-> "", msg |-> "", value |-> v, issues |-> <<>>]

ReturnIssues(l) == [kind |-> "return", exc |-> "", msg |-> "", value |-> NoValue, issues |-> l]

Raise(e, m) == [kind |-> "raise", exc |-> e, msg |-> m, value |-> NoValue, issues |-> <<>>]

NoResult == [kind |-> "none", exc |-> "", msg |-> "", value |-> NoValue, issues |-> <<>>]

\* the outcome of the first call of each validation pass on the design at
\* hand (NoResult before the first call); a record of what was observed, not
\* a part of the program's state
NoFirst ==
    [continuity |-> NoResult, manufacturing |-> NoResult, validator |-> NoResult,
     again |-> FALSE]

Observed(was, now) == IF was = NoResult THEN now ELSE was

\* placeholders of the inputs a specification does not use
NoRecord ==
    [section_type |-> "none", start_position_in |-> 0, end_position_in |-> 0,
     outer_diameter_start_mm |-> 0, outer_diameter_end_mm |-> 0]

NoPattern == [t |-> "none"]

NoTransform == [width |-> 0, height |-> 0, padding |-> 0]

NoDb == [designs |-> <<>>, sections |-> <<>>]

(***************************************************************************)
(* Point3D and CueSectionGeometry                                          *)
(***************************************************************************)
Point3D(x, r) == [x |-> x, r |-> r]

CueSectionGeometry(section_type, start, end) ==
    [section_type |-> section_type, start |-> start, end |-> end]

length(s) == s.end.x - s.start.x

start_radius(s) == s.start.r

end_radius(s) == s.end.r

\* mutant: taper_rate without its zero-length guard
taper_rate_NoGuard(s) ==
    IF length(s) = 0
    THEN Raise("ZeroDivisionError", "float division by zero")
    ELSE Return(Rat(end_radius(s) - start_radius(s), length(s)))

\* taper_rate, in (0.01 mm) per mil
taper_rate(s) ==
    IF length(s) = 0
    THEN Return(<<0, 1>>)
    ELSE Return(Rat(end_radius(s) - start_radius(s), length(s)))

\* taper_angle_degrees, given by its tangent taper_rate / 25.4 with the rate
\* in mm per inch (10 * the rate in model units); degrees(atan(.)) is a
\* strictly increasing odd function, so the angle is 0 iff the tangent is 0
\* and has the tangent's sign.
taper_angle_degrees(s) ==
    IF length(s) = 0
    THEN Return(<<0, 1>>)
    ELSE Return(Rat(taper_rate(s).value[1] * 100, taper_rate(s).value[2] * 254))

\* mutant: the interpolation runs from the end radius
CueSectionGeometry_radius_at_position_FromEnd(s, x) ==
    IF RatLess(x, RatOfInt(s.start.x)) \/ RatLess(RatOfInt(s.end.x), x)
    THEN Raise("ValueError", "outside section range")
    ELSE IF length(s) = 0
         THEN Raise("ZeroDivisionError", "float division by zero")
         ELSE LET t == RatDiv(RatSub(x, RatOfInt(s.start.x)), RatOfInt(length(s)))
              IN  Return(RatAdd(RatOfInt(end_radius(s)),
                                RatMul(t, RatOfInt(end_radius(s) - start_radius(s)))))

\* radius_at_position of a section; x is a quotient <<n, d>> with d > 0.
\* t = (x - start.x) / length divides by zero for a zero-length section.
CueSectionGeometry_radius_at_position(s, x) ==
    IF RatLess(x, RatOfInt(s.start.x)) \/ RatLess(RatOfInt(s.end.x), x)
    THEN Raise("ValueError", "outside section range")
    ELSE IF length(s) = 0
         THEN Raise("ZeroDivisionError", "float division by zero")
         ELSE LET t == RatDiv(RatSub(x, RatOfInt(s.start.x)), RatOfInt(length(s)))
              IN  Return(RatAdd(RatOfInt(start_radius(s)),
                                RatMul(t, RatOfInt(end_radius(s) - start_radius(s)))))

(***************************************************************************)
(* Inputs of the section-level specification                               *)
(***************************************************************************)
SectionPositions == {0, 4000, 10000}

SectionRadii == {800, 1000, 1200}

SectionInputs ==
    {CueSectionGeometry("forearm", Point3D(sx, sr), Point3D(ex, er)) :
        sx \in SectionPositions, ex \in SectionPositions,
        sr \in SectionRadii, er \in SectionRadii}

NoSection == CueSectionGeometry("none", Point3D(0, 0), Point3D(0, 0))

\* the positions a caller asks about: the ends, the true midpoint, a point
\* a quarter of the way, and points just outside either end
SectionQueries(s) ==
    {RatOfInt(s.start.x), RatOfInt(s.end.x), <<s.start.x + s.end.x, 2>>,
     <<3 * s.start.x + s.end.x, 4>>,
     RatOfInt(s.start.x - 1), RatOfInt(s.end.x + 1)}

InitSection ==
    /\ section \in SectionInputs
    /\ input_sections = <<>>
    /\ sections = <<>>
    /\ constructed = FALSE
    /\ sections_data = <<>>
    /\ section_data = NoRecord
    /\ pattern_data = NoPattern
    /\ transform = NoTransform
    /\ db = NoDb
    /\ first = NoFirst
    /\ op = "init"
    /\ arg = NoValue
    /\ result = NoResult

SectionRadiusAtPosition ==
    /\ section # NoSection
    /\ \E x \in SectionQueries(section) :
          /\ op' = "section.radius_at_position"
          /\ arg' = x
          /\ result' = CueSectionGeometry_radius_at_position(section, x)
    /\ UNCHANGED <<section, input_sections, sections, constructed, sections_data,
                 section_data, pattern_data, transform, db, first>>

SectionTaperRate ==
    /\ section # NoSection
    /\ op' = "section.taper_rate"
    /\ arg' = NoValue
    /\ result' = taper_rate(section)
    /\ UNCHANGED <<section, input_sections, sections, constructed, sections_data,
                 section_data, pattern_data, transform, db, first>>

SectionTaperAngle ==
    /\ section # NoSection
    /\ op' = "section.taper_angle_degrees"
    /\ arg' = NoValue
    /\ result' = taper_angle_degrees(section)
    /\ UNCHANGED <<section, input_sections, sections, constructed, sections_data,
                 section_data, pattern_data, transform, db, first>>

NextSection == SectionRadiusAtPosition \/ SectionTaperRate \/ SectionTaperAngle

SpecSection == InitSection /\ [][NextSection]_vars

(***************************************************************************)
(* CueDesignGeometry                                                       *)
(***************************************************************************)
\* insert s behind every element whose key is <= its own (stable)
RECURSIVE InsertByStartX(_, _)
InsertByStartX(sorted, s) ==
    IF sorted = <<>>
    THEN <<s>>
    ELSE IF Head(sorted).start.x <= s.start.x
         THEN <<Head(sorted)>> \o InsertByStartX(Tail(sorted), s)
         ELSE <<s>> \o sorted

RECURSIVE SortedByStartX(_)
SortedByStartX(seq) ==
    IF seq = <<>>
    THEN <<>>
    ELSE InsertByStartX(SortedByStartX(SubSeq(seq, 1, Len(seq) - 1)), seq[Len(seq)])

\* mutant: the constructor keeps the caller's order
CueDesignGeometry_CallerOrder(secs) == secs

\* __init__: self.sections = sorted(sections, key=lambda s: s.start.x)
CueDesignGeometry(secs) == SortedByStartX(secs)

\* mutant: the design is taken to start at 0
total_length_FromZero(secs) ==
    IF secs = <<>> THEN Return(<<0, 1>>) ELSE Return(RatOfInt(secs[Len(secs)].end.x))

total_length(secs) ==
    IF secs = <<>>
    THEN Return(<<0, 1>>)
    ELSE Return(RatOfInt(secs[Len(secs)].end.x - secs[1].start.x))

\* mutant: a section's range is half open
get_section_at_position_HalfOpen(secs, x) ==
    LET hits == {i \in 1..Len(secs) :
                    /\ ~ RatLess(x, RatOfInt(secs[i].start.x))
                    /\ RatLess(x, RatOfInt(secs[i].end.x))}
    IN  IF hits = {} THEN 0 ELSE CHOOSE i \in hits : \A j \in hits : i <= j

\* index of the first section with start.x <= x <= end.x, 0 for None
get_section_at_position(secs, x) ==
    LET hits == {i \in 1..Len(secs) :
                    /\ ~ RatLess(x, RatOfInt(secs[i].start.x))
                    /\ ~ RatLess(RatOfInt(secs[i].end.x), x)}
    IN  IF hits = {} THEN 0 ELSE CHOOSE i \in hits : \A j \in hits : i <= j

CueDesignGeometry_radius_at_position(secs, x) ==
    LET i == get_section_at_position(secs, x)
    IN  IF i # 0
        THEN CueSectionGeometry_radius_at_position(secs[i], x)
        ELSE Raise("ValueError", "outside cue design")

GapTolerance == 1

RadiusJumpTolerance == 10

GapIssue(current, next_section) ==
    [kind |-> "gap", current |-> current.section_type, next |-> next_section.section_type]

RadiusJumpIssue(current, next_section) ==
    [kind |-> "radius_jump", current |-> current.section_type,
     next |-> next_section.section_type]

\* the body of the loop of validate_continuity for the pair i, i + 1
ContinuityIssuesAt(secs, i) ==
    (IF Abs(secs[i].end.x - secs[i + 1].start.x) > GapTolerance
     THEN <<GapIssue(secs[i], secs[i + 1])>> ELSE <<>>)
    \o
    (IF Abs(end_radius(secs[i]) - start_radius(secs[i + 1])) > RadiusJumpTolerance
     THEN <<RadiusJumpIssue(secs[i], secs[i + 1])>> ELSE <<>>)

RECURSIVE ContinuityLoop(_, _)
ContinuityLoop(secs, i) ==
    IF i > Len(secs) - 1
    THEN <<>>
    ELSE ContinuityIssuesAt(secs, i) \o ContinuityLoop(secs, i + 1)

\* mutant: a gap is flagged only when the next section starts late, not
\* when it starts early
validate_continuity_SignedGap(secs) ==
    LET At(i) ==
            (IF secs[i + 1].start.x - secs[i].end.x > GapTolerance
             THEN <<GapIssue(secs[i], secs[i + 1])>> ELSE <<>>)
            \o
            (IF Abs(end_radius(secs[i]) - start_radius(secs[i + 1])) > RadiusJumpTolerance
             THEN <<RadiusJumpIssue(secs[i], secs[i + 1])>> ELSE <<>>)
        Loop[i \in 1..Len(secs)] ==
            IF i > Len(secs) - 1 THEN <<>> ELSE At(i) \o Loop[i + 1]
    IN  IF Len(secs) < 2 THEN ReturnIssues(<<>>) ELSE ReturnIssues(Loop[1])

validate_continuity(secs) ==
    IF Len(secs) < 2
    THEN ReturnIssues(<<>>)
    ELSE ReturnIssues(ContinuityLoop(secs, 1))

(***************************************************************************)
(* Inputs of the design-level specification                                *)
(***************************************************************************)
MaxSections == 2

\* <<start.x, end.x>>: the two halves of the 20 in example, a second half
\* lying 0.001 in and 0.002 in further on (a gap behind the first half, an
\* overlap with the second), a zero-length section and a reversed section
DesignSpans ==
    {<<0, 10000>>, <<10000, 20000>>, <<10001, 20001>>, <<10002, 20002>>,
     <<10000, 10000>>, <<20000, 15000>>}

\* <<start radius, end radius>>
DesignRadii == {<<1000, 1000>>, <<1000, 1200>>, <<1010, 1000>>}

DesignTypes == {"forearm", "handle"}

\* a forearm of every span, a handle as second half of the example or
\* overlapping it
DesignSectionInputs ==
    {CueSectionGeometry("forearm", Point3D(sp[1], rr[1]), Point3D(sp[2], rr[2])) :
        sp \in DesignSpans, rr \in DesignRadii}
    \cup {CueSectionGeometry("handle", Point3D(sp[1], rr[1]), Point3D(sp[2], rr[2])) :
             sp \in {<<10000, 20000>>, <<10002, 20002>>}, rr \in DesignRadii}

SeqsUpTo(S, n) == UNION {[1..k -> S] : k \in 0..n}

DesignQueries ==
    {RatOfInt(p) : p \in {-1, 0, 5000, 10000, 15000, 20000, 20001}} \cup {<<20003, 2>>}

Init ==
    /\ section = NoSection
    /\ input_sections \in SeqsUpTo(DesignSectionInputs, MaxSections)
    /\ sections = <<>>
    /\ constructed = FALSE
    /\ sections_data = <<>>
    /\ section_data = NoRecord
    /\ pattern_data = NoPattern
    /\ transform = NoTransform
    /\ db = NoDb
    /\ first = NoFirst
    /\ op = "init"
    /\ arg = NoValue
    /\ result = NoResult

\* mutant: sections.sort(key=...) on the caller's list
Construct_SortInPlace ==
    /\ ~ constructed
    /\ constructed' = TRUE
    /\ sections' = CueDesignGeometry(input_sections)
    /\ input_sections' = sections'
    /\ op' = "CueDesignGeometry"
    /\ arg' = NoValue
    /\ result' = NoResult
    /\ UNCHANGED <<section, sections_data, section_data, pattern_data, transform, db, first>>

Construct ==
    /\ ~ constructed
    /\ constructed' = TRUE
    /\ sections' = CueDesignGeometry(input_sections)
    /\ op' = "CueDesignGeometry"
    /\ arg' = NoValue
    /\ result' = NoResult
    /\ UNCHANGED <<section, input_sections, sections_data, section_data, pattern_data, transform, db, first>>

RadiusAtPosition ==
    /\ constructed
    /\ \E x \in DesignQueries :
          /\ op' = "radius_at_position"
          /\ arg' = x
          /\ result' = CueDesignGeometry_radius_at_position(sections, x)
    /\ UNCHANGED <<section, input_sections, sections, constructed, sections_data,
                 section_data, pattern_data, transform, db, first>>

TotalLength ==
    /\ constructed
    /\ op' = "total_length"
    /\ arg' = NoValue
    /\ result' = total_length(sections)
    /\ UNCHANGED <<section, input_sections, sections, constructed, sections_data,
                 section_data, pattern_data, transform, db, first>>

ValidateContinuity ==
    /\ constructed
    /\ op' = "validate_continuity"
    /\ arg' = NoValue
    /\ result' = validate_continuity(sections)
    /\ UNCHANGED <<section, input_sections, sections, constructed, sections_data,
                 section_data, pattern_data, transform, db, first>>

Next == Construct \/ RadiusAtPosition \/ TotalLength \/ ValidateContinuity

Spec == Init /\ [][Next]_vars

(***************************************************************************)
(* validate_manufacturing_constraints: the design's method and the         *)
(* validator's static method                                               *)
(***************************************************************************)
\* tan(5 degrees) = 0.0874886635..., here 193 / 2206 = 0.0874886673...; the
\* angle atan(q) exceeds 5 degrees iff q exceeds tan(5 degrees)
TanFiveDegrees == <<193, 2206>>

MinRadius == 500

MaxRadius == 2500

MinSectionLength == 2000

MaxSectionLength == 20000

MaxTotalLength == 40000

RatAbs(q) == <<Abs(q[1]), Abs(q[2])>>

Min(a, b) == IF a < b THEN a ELSE b

Max(a, b) == IF a > b THEN a ELSE b

\* an issue is the kind of its message and the subject the message names;
\* the formatted measurement in the message text is left out
SectionIssue(kind, s) == [kind |-> kind, section_type |-> s.section_type, types |-> {}]

DesignIssue(kind, types) == [kind |-> kind, section_type |-> "", types |-> types]

\* abs(section.taper_angle_degrees) > 5.0
TaperTooSteep(s) == RatLess(TanFiveDegrees, RatAbs(taper_angle_degrees(s).value))

\* mutant: the three checks are an if / elif chain
TaperAndRadiusIssues_ElifChain(s) ==
    IF TaperTooSteep(s)
    THEN <<SectionIssue("taper_too_steep", s)>>
    ELSE IF Min(start_radius(s), end_radius(s)) < MinRadius
         THEN <<SectionIssue("radius_too_small", s)>>
         ELSE IF Max(start_radius(s), end_radius(s)) > MaxRadius
              THEN <<SectionIssue("radius_too_large", s)>>
              ELSE <<>>

\* the taper, minimum radius and maximum radius checks of one section
TaperAndRadiusIssues(s) ==
    (IF TaperTooSteep(s) THEN <<SectionIssue("taper_too_steep", s)>> ELSE <<>>)
    \o (IF Min(start_radius(s), end_radius(s)) < MinRadius
        THEN <<SectionIssue("radius_too_small", s)>> ELSE <<>>)
    \o (IF Max(start_radius(s), end_radius(s)) > MaxRadius
        THEN <<SectionIssue("radius_too_large", s)>> ELSE <<>>)

\* mutant: a section of exactly 2 in is too short
SectionLengthIssues_ShortInclusive(s) ==
    (IF length(s) <= MinSectionLength THEN <<SectionIssue("too_short", s)>> ELSE <<>>)
    \o (IF length(s) > MaxSectionLength THEN <<SectionIssue("too_long", s)>> ELSE <<>>)

\* the section length checks of the validator
SectionLengthIssues(s) ==
    (IF length(s) < MinSectionLength THEN <<SectionIssue("too_short", s)>> ELSE <<>>)
    \o (IF length(s) > MaxSectionLength THEN <<SectionIssue("too_long", s)>> ELSE <<>>)

TotalLengthIssues(secs) ==
    IF RatLess(RatOfInt(MaxTotalLength), total_length(secs).value)
    THEN <<DesignIssue("total_length_too_long", {})>>
    ELSE <<>>

TypeCount(secs, ty) == Cardinality({i \in 1..Len(secs) : secs[i].section_type = ty})

TypesOf(secs) == {secs[i].section_type : i \in 1..Len(secs)}

\* mutant: one issue for every type that occurs more than once
DuplicateTypeIssues_PerType(secs) ==
    LET duplicates == {ty \in TypesOf(secs) : TypeCount(secs, ty) > 1}
        Each[S \in SUBSET duplicates] ==
            IF S = {}
            THEN <<>>
            ELSE LET ty == CHOOSE x \in S : TRUE
                 IN  <<DesignIssue("duplicate_types", {ty})>> \o Each[S \ {ty}]
    IN  Each[duplicates]

\* len(section_types) != len(set(section_types)): one issue naming the set
\* of the types that occur more than once
DuplicateTypeIssues(secs) ==
    LET duplicates == {ty \in TypesOf(secs) : TypeCount(secs, ty) > 1}
    IN  IF Len(secs) # Cardinality(TypesOf(secs))
        THEN <<DesignIssue("duplicate_types", duplicates)>>
        ELSE <<>>

\* mutant: the issue list is shared between calls and keeps growing
CueDesignGeometry_validate_manufacturing_constraints_SharedList(secs) ==
    LET Loop[i \in 1..(Len(secs) + 1)] ==
            IF i > Len(secs) THEN <<>> ELSE TaperAndRadiusIssues(secs[i]) \o Loop[i + 1]
    IN  ReturnIssues(first.manufacturing.issues \o Loop[1])

\* CueDesignGeometry.validate_manufacturing_constraints
CueDesignGeometry_validate_manufacturing_constraints(secs) ==
    LET Loop[i \in 1..(Len(secs) + 1)] ==
            IF i > Len(secs) THEN <<>> ELSE TaperAndRadiusIssues(secs[i]) \o Loop[i + 1]
    IN  ReturnIssues(Loop[1])

\* CueGeometryValidator.validate_manufacturing_constraints(geometry)
CueGeometryValidator_validate_manufacturing_constraints(secs) ==
    LET Loop[i \in 1..(Len(secs) + 1)] ==
            IF i > Len(secs)
            THEN <<>>
            ELSE TaperAndRadiusIssues(secs[i]) \o SectionLengthIssues(secs[i]) \o Loop[i + 1]
    IN  ReturnIssues(Loop[1] \o TotalLengthIssues(secs) \o DuplicateTypeIssues(secs))

(***************************************************************************)
(* Inputs of the manufacturing specification                               *)
(***************************************************************************)
\* <<start.x, end.x>>: sections of 2 in, 1 in, 20 in, a second 20 in section
\* (40 in in total) and a 21 in section (41 in in total)
ManufacturingSpans ==
    {<<0, 2000>>, <<0, 1000>>, <<0, 20000>>, <<20000, 40000>>, <<20000, 41000>>}

\* <<start radius, end radius>>: the limits 5 mm and 25 mm themselves, 4.99 mm
\* and 25.01 mm, and a cylinder
ManufacturingRadii == {<<500, 2500>>, <<499, 2501>>, <<1000, 1000>>}

ManufacturingSectionInputs ==
    {CueSectionGeometry(ty, Point3D(sp[1], rr[1]), Point3D(sp[2], rr[2])) :
        ty \in DesignTypes, sp \in ManufacturingSpans, rr \in ManufacturingRadii}

ChainTypes == {"forearm", "handle", "butt"}

\* four abutting 10 in cylinders of any types
TypedChains ==
    {[i \in 1..4 |-> CueSectionGeometry(ty[i], Point3D((i - 1) * 10000, 1000),
                                        Point3D(i * 10000, 1000))] :
        ty \in [1..4 -> ChainTypes]}

InitManufacturing ==
    /\ section = NoSection
    /\ input_sections \in SeqsUpTo(ManufacturingSectionInputs, MaxSections) \cup TypedChains
    /\ sections = <<>>
    /\ constructed = FALSE
    /\ sections_data = <<>>
    /\ section_data = NoRecord
    /\ pattern_data = NoPattern
    /\ transform = NoTransform
    /\ db = NoDb
    /\ first = NoFirst
    /\ op = "init"
    /\ arg = NoValue
    /\ result = NoResult

ValidateManufacturingConstraints ==
    /\ constructed
    /\ op' = "validate_manufacturing_constraints"
    /\ arg' = NoValue
    /\ result' = CueDesignGeometry_validate_manufacturing_constraints(sections)
    /\ first' = [first EXCEPT !.manufacturing = Observed(@, result'),
                              !.again = (first.manufacturing # NoResult)]
    /\ UNCHANGED <<section, input_sections, sections, constructed, sections_data,
                   section_data, pattern_data, transform, db>>

ValidatorManufacturingConstraints ==
    /\ constructed
    /\ op' = "CueGeometryValidator.validate_manufacturing_constraints"
    /\ arg' = NoValue
    /\ result' = CueGeometryValidator_validate_manufacturing_constraints(sections)
    /\ first' = [first EXCEPT !.validator = Observed(@, result'),
                              !.again = (first.validator # NoResult)]
    /\ UNCHANGED <<section, input_sections, sections, constructed, sections_data,
                   section_data, pattern_data, transform, db>>

\* validate_continuity, the outcome of its first call being kept
ValidateContinuityObserved ==
    /\ constructed
    /\ op' = "validate_continuity"
    /\ arg' = NoValue
    /\ result' = validate_continuity(sections)
    /\ first' = [first EXCEPT !.continuity = Observed(@, result'),
                              !.again = (first.continuity # NoResult)]
    /\ UNCHANGED <<section, input_sections, sections, constructed, sections_data,
                   section_data, pattern_data, transform, db>>

NextManufacturing ==
    \/ Construct
    \/ ValidateManufacturingConstraints
    \/ ValidatorManufacturingConstraints
    \/ ValidateContinuityObserved

SpecManufacturing == InitManufacturing /\ [][NextManufacturing]_vars

(***************************************************************************)
(* CueGeometryValidator: validators over section records (dicts)           *)
(***************************************************************************)
SectionRecord(ty, sp, ep, sd, ed) ==
    [section_type |-> ty, start_position_in |-> sp, end_position_in |-> ep,
     outer_diameter_start_mm |-> sd, outer_diameter_end_mm |-> ed]

\* insert s behind every record whose start_position_in is <= its own (stable)
RECURSIVE InsertByStartPosition(_, _)
InsertByStartPosition(sorted, s) ==
    IF sorted = <<>>
    THEN <<s>>
    ELSE IF Head(sorted).start_position_in <= s.start_position_in
         THEN <<Head(sorted)>> \o InsertByStartPosition(Tail(sorted), s)
         ELSE <<s>> \o sorted

\* sorted(sections_data, key=lambda s: s["start_position_in"])
RECURSIVE SortedByStartPosition(_)
SortedByStartPosition(seq) ==
    IF seq = <<>>
    THEN <<>>
    ELSE InsertByStartPosition(SortedByStartPosition(SubSeq(seq, 1, Len(seq) - 1)),
                               seq[Len(seq)])

ValidatorGapTolerance == 10

DiameterJumpTolerance == 100

\* an issue is the kind of its message and the section types the message
\* names; the formatted measurement in the message text is left out
RecordGapIssue(current, next_section) ==
    [kind |-> "gap", current |-> current.section_type, next |-> next_section.section_type]

OverlapIssue(current, next_section) ==
    [kind |-> "overlap", current |-> current.section_type,
     next |-> next_section.section_type]

DiameterJumpIssue == [kind |-> "diameter_jump", current |-> "", next |-> ""]

gap_between(current, next_section) ==
    next_section.start_position_in - current.end_position_in

\* the issues of one pass of the loop body, the gap check having come out
\* as gap_flagged
PairIssues(current, next_section, gap_flagged) ==
    (IF gap_flagged THEN <<RecordGapIssue(current, next_section)>> ELSE <<>>)
    \o (IF gap_between(current, next_section) < 0
        THEN <<OverlapIssue(current, next_section)>> ELSE <<>>)
    \o (IF Abs(current.outer_diameter_end_mm - next_section.outer_diameter_start_mm)
             > DiameterJumpTolerance
        THEN <<DiameterJumpIssue>> ELSE <<>>)

\* mutant: a gap of exactly 0.01 in is flagged
validate_sections_continuity_GapInclusive(data) ==
    LET s == SortedByStartPosition(data)
        Loop[i \in 1..Len(s)] ==
            IF i > Len(s) - 1
            THEN <<>>
            ELSE PairIssues(s[i], s[i + 1],
                            gap_between(s[i], s[i + 1]) >= ValidatorGapTolerance)
                 \o Loop[i + 1]
    IN  IF Len(data) < 2 THEN ReturnIssues(<<>>) ELSE ReturnIssues(Loop[1])

\* mutant: the gap tolerance is the 0.001 in of the design's validate_continuity
validate_sections_continuity_GeometryTolerance(data) ==
    LET s == SortedByStartPosition(data)
        Loop[i \in 1..Len(s)] ==
            IF i > Len(s) - 1
            THEN <<>>
            ELSE PairIssues(s[i], s[i + 1], gap_between(s[i], s[i + 1]) > GapTolerance)
                 \o Loop[i + 1]
    IN  IF Len(data) < 2 THEN ReturnIssues(<<>>) ELSE ReturnIssues(Loop[1])

\* mutant: the records are compared in the caller's order
validate_sections_continuity_CallerOrder(data) ==
    LET Loop[i \in 1..Len(data)] ==
            IF i > Len(data) - 1
            THEN <<>>
            ELSE PairIssues(data[i], data[i + 1],
                            gap_between(data[i], data[i + 1]) > ValidatorGapTolerance)
                 \o Loop[i + 1]
    IN  IF Len(data) < 2 THEN ReturnIssues(<<>>) ELSE ReturnIssues(Loop[1])

validate_sections_continuity(data) ==
    LET sorted_sections == SortedByStartPosition(data)
        Loop[i \in 1..Len(sorted_sections)] ==
            IF i > Len(sorted_sections) - 1
            THEN <<>>
            ELSE PairIssues(sorted_sections[i], sorted_sections[i + 1],
                            gap_between(sorted_sections[i], sorted_sections[i + 1])
                              > ValidatorGapTolerance)
                 \o Loop[i + 1]
    IN  IF Len(data) < 2 THEN ReturnIssues(<<>>) ELSE ReturnIssues(Loop[1])

(***************************************************************************)
(* Inputs of the record-validator specification                            *)
(***************************************************************************)
\* starts 0.005, 0.01, 0.011, 0.5 and 1 in behind the end of a 10 in section
RecordStarts == {0, 10000, 10005, 10010, 10011, 10500, 11000}

RecordEnds == {10000, 20000}

\* <<outer_diameter_start_mm, outer_diameter_end_mm>>
RecordDiameters == {<<2000, 1900>>, <<1900, 2100>>}

RecordInputs ==
    {SectionRecord(ty, sp, ep, dd[1], dd[2]) :
        ty \in DesignTypes, sp \in RecordStarts, ep \in RecordEnds, dd \in RecordDiameters}

InitValidator ==
    /\ section = NoSection
    /\ input_sections = <<>>
    /\ sections = <<>>
    /\ constructed = FALSE
    /\ sections_data \in SeqsUpTo(RecordInputs, MaxSections)
    /\ section_data = NoRecord
    /\ pattern_data = NoPattern
    /\ transform = NoTransform
    /\ db = NoDb
    /\ first = NoFirst
    /\ op = "init"
    /\ arg = NoValue
    /\ result = NoResult

ValidateSectionsContinuity ==
    /\ op' = "validate_sections_continuity"
    /\ arg' = NoValue
    /\ result' = validate_sections_continuity(sections_data)
    /\ UNCHANGED <<section, input_sections, sections, constructed, sections_data,
                 section_data, pattern_data, transform, db, first>>

NextValidator == ValidateSectionsContinuity

SpecValidator == InitValidator /\ [][NextValidator]_vars

(***************************************************************************)
(* Claims about a single section (checked under SpecSection)               *)
(***************************************************************************)
Midpoint(s) == <<s.start.x + s.end.x, 2>>

Returned(v) == result.kind = "return" /\ RatEq(result.value, v)

EndsAndMidpointExact ==
    /\ RatEq(arg, RatOfInt(section.start.x)) => Returned(RatOfInt(start_radius(section)))
    /\ RatEq(arg, RatOfInt(section.end.x)) => Returned(RatOfInt(end_radius(section)))
    /\ RatEq(arg, Midpoint(section))
          => Returned(<<start_radius(section) + end_radius(section), 2>>)

\* C2 (as stated): for ALL sections, radius_at_position(start.x) = start_radius,
\* radius_at_position(end.x) = end_radius and radius_at_position at the true
\* midpoint = (start_radius + end_radius) / 2.
C2_AllSections ==
    op = "section.radius_at_position" => EndsAndMidpointExact

\* C2 (amended): for every section of positive length (start.x < end.x),
\* radius_at_position(start.x) = start_radius, radius_at_position(end.x) =
\* end_radius and radius_at_position((start.x + end.x) / 2) =
\* (start_radius + end_radius) / 2.
C2_PositiveLength ==
    (op = "section.radius_at_position" /\ length(section) > 0) => EndsAndMidpointExact

C2_Witness ==
    /\ op = "section.radius_at_position"
    /\ length(section) > 0
    /\ start_radius(section) # end_radius(section)
    /\ arg = Midpoint(section)
    /\ Returned(<<start_radius(section) + end_radius(section), 2>>)

InRange(s, x) == ~ RatLess(x, RatOfInt(s.start.x)) /\ ~ RatLess(RatOfInt(s.end.x), x)

\* C4: section radius_at_position(x) fails with ValueError for every x < start.x
\* or x > end.x, and returns a radius without error for every x in
\* [start.x, end.x].
C4_RangeError ==
    op = "section.radius_at_position" =>
        /\ ~ InRange(section, arg) => (result.kind = "raise" /\ result.exc = "ValueError")
        /\ InRange(section, arg) => result.kind = "return"

\* C6: when length > 0 the sign of taper_rate is the sign of
\* end_radius - start_radius; a zero-length section reports taper_rate = 0 and
\* taper_angle_degrees = 0 and raises nothing.
C6_TaperSign ==
    /\ (op = "section.taper_rate" /\ length(section) > 0)
          => /\ result.kind = "return"
             /\ RatSign(result.value) = Sgn(end_radius(section) - start_radius(section))
    /\ (op \in {"section.taper_rate", "section.taper_angle_degrees"} /\ length(section) = 0)
          => Returned(<<0, 1>>)

C6_Witness ==
    /\ op = "section.taper_rate"
    /\ length(section) = 0
    /\ start_radius(section) # end_radius(section)
    /\ Returned(<<0, 1>>)

(***************************************************************************)
(* Claims about a design (checked under Spec)                              *)
(***************************************************************************)
Count(seq, e) == Cardinality({i \in 1..Len(seq) : seq[i] = e})

IsPermutation(a, b) ==
    /\ Len(a) = Len(b)
    /\ \A i \in 1..Len(a) : Count(a, a[i]) = Count(b, a[i])

\* C1: whatever the caller's order, the constructed design's sections are a
\* permutation of the input, ordered by start.x ascending.
C1_SortedPermutation ==
    constructed =>
        /\ IsPermutation(sections, input_sections)
        /\ \A i \in 1..(Len(sections) - 1) : sections[i].start.x <= sections[i + 1].start.x

C1_Witness ==
    /\ constructed
    /\ Len(input_sections) = 2
    /\ input_sections[1].start.x > input_sections[2].start.x
    /\ sections = <<input_sections[2], input_sections[1]>>

Contains(s, x) == ~ RatLess(x, RatOfInt(s.start.x)) /\ ~ RatLess(RatOfInt(s.end.x), x)

AnyContains(secs, x) == \E i \in 1..Len(secs) : Contains(secs[i], x)

FirstContaining(secs, x) ==
    CHOOSE i \in 1..Len(secs) :
        Contains(secs[i], x) /\ \A j \in 1..(i - 1) : ~ Contains(secs[j], x)

\* r lies on the line through (start.x, start_radius) and (end.x, end_radius):
\* (r - start_radius) * (end.x - start.x) = (x - start.x) * (end_radius - start_radius)
IsInterpolation(r, s, x) ==
    RatMul(RatSub(r, RatOfInt(s.start.r)), RatOfInt(s.end.x - s.start.x))
      = RatMul(RatSub(x, RatOfInt(s.start.x)), RatOfInt(s.end.r - s.start.r))

ExampleDesign ==
    <<CueSectionGeometry("forearm", Point3D(0, 1000), Point3D(10000, 1000)),
      CueSectionGeometry("handle", Point3D(10000, 1000), Point3D(20000, 1200))>>

\* C3: for a position x inside at least one section the design's
\* radius_at_position(x) returns the linear interpolation of the first
\* section, in sorted order, whose closed range contains x; the forearm/handle
\* example gives 10 at x = 5 and 11 at x = 15.
C3_FirstSectionInterpolation ==
    (op = "radius_at_position" /\ AnyContains(sections, arg)) =>
        /\ result.kind = "return"
        /\ IsInterpolation(result.value, sections[FirstContaining(sections, arg)], arg)
        /\ (sections = ExampleDesign /\ arg = RatOfInt(5000)) => Returned(RatOfInt(1000))
        /\ (sections = ExampleDesign /\ arg = RatOfInt(15000)) => Returned(RatOfInt(1100))

DomainError ==
    result.kind = "raise" /\ result.exc = "ValueError" /\ result.msg = "outside cue design"

\* C5: the design's radius_at_position(x) fails with the domain error exactly
\* when no section's range contains x: in a gap, before the first section,
\* after the last one, anywhere on an empty design.
C5_DomainError ==
    op = "radius_at_position" => (DomainError <=> ~ AnyContains(sections, arg))

C5_Witness ==
    /\ op = "radius_at_position"
    /\ Len(sections) = 2
    /\ RatLess(RatOfInt(sections[1].end.x), arg)
    /\ RatLess(arg, RatOfInt(sections[2].start.x))
    /\ DomainError

RECURSIVE SumOfLengths(_)
SumOfLengths(secs) ==
    IF secs = <<>> THEN 0 ELSE (Head(secs).end.x - Head(secs).start.x) + SumOfLengths(Tail(secs))

Abutting(secs) == \A i \in 1..(Len(secs) - 1) : secs[i].end.x = secs[i + 1].start.x

\* C7: total_length is the last sorted section's end.x minus the first one's
\* start.x, 0 for an empty design, the sum of the section lengths when the
\* sections abut exactly, and 20 for the forearm/handle example.
C7_TotalLength ==
    op = "total_length" =>
        /\ result.kind = "return"
        /\ Len(sections) = 0 => Returned(RatOfInt(0))
        /\ Len(sections) > 0 =>
              Returned(RatOfInt(sections[Len(sections)].end.x - sections[1].start.x))
        /\ Abutting(sections) => Returned(RatOfInt(SumOfLengths(sections)))
        /\ sections = ExampleDesign => Returned(RatOfInt(20000))

C7_Witness ==
    /\ op = "total_length"
    /\ Len(sections) = 2
    /\ Abutting(sections)
    /\ sections[1].start.x # 0
    /\ Returned(RatOfInt(SumOfLengths(sections)))

\* the issues the claim expects of the pairs i, i + 1, ..., in order
ExpectedContinuity(secs) ==
    LET gap(i) == secs[i].end.x - secs[i + 1].start.x > 1
                  \/ secs[i + 1].start.x - secs[i].end.x > 1
        jump(i) == secs[i].end.r - secs[i + 1].start.r > 10
                   \/ secs[i + 1].start.r - secs[i].end.r > 10
        of(i) == (IF gap(i)
                  THEN <<[kind |-> "gap", current |-> secs[i].section_type,
                          next |-> secs[i + 1].section_type]>>
                  ELSE <<>>)
                 \o (IF jump(i)
                     THEN <<[kind |-> "radius_jump", current |-> secs[i].section_type,
                             next |-> secs[i + 1].section_type]>>
                     ELSE <<>>)
        upTo[k \in 0..Len(secs)] == IF k = 0 THEN <<>> ELSE upTo[k - 1] \o of(k)
    IN  IF Len(secs) < 2 THEN <<>> ELSE upTo[Len(secs) - 1]

\* C8: validate_continuity returns, pair by pair in sorted order, a gap issue
\* iff |prev.end.x - next.start.x| > 0.001 and a radius-jump issue iff
\* |prev.end_radius - next.start_radius| > 0.1, nothing else; it returns the
\* empty list for fewer than two sections and never raises.
C8_Continuity ==
    op = "validate_continuity" =>
        /\ result.kind = "return"
        /\ result.issues = ExpectedContinuity(sections)
        /\ Len(sections) < 2 => result.issues = <<>>

C8_Witness ==
    /\ op = "validate_continuity"
    /\ Len(sections) = 2
    /\ sections[1].end.x - sections[2].start.x > 1
    /\ Abs(sections[1].end.r - sections[2].start.r) = 10
    /\ result.issues = <<[kind |-> "gap", current |-> sections[1].section_type,
                           next |-> sections[2].section_type]>>

(***************************************************************************)
(* Claims about the record validators (checked under SpecValidator)        *)
(***************************************************************************)
HasIssue(k) == \E i \in 1..Len(result.issues) : result.issues[i].kind = k

\* the issues the claim expects of the sorted records, pair by pair
ExpectedRecordContinuity(data) ==
    LET s == SortedByStartPosition(data)
        d(i) == s[i + 1].start_position_in - s[i].end_position_in
        j(i) == s[i].outer_diameter_end_mm - s[i + 1].outer_diameter_start_mm
        of(i) == (IF d(i) > 10
                  THEN <<[kind |-> "gap", current |-> s[i].section_type,
                          next |-> s[i + 1].section_type]>>
                  ELSE <<>>)
                 \o (IF d(i) < 0
                     THEN <<[kind |-> "overlap", current |-> s[i].section_type,
                             next |-> s[i + 1].section_type]>>
                     ELSE <<>>)
                 \o (IF j(i) > 100 \/ j(i) < -100
                     THEN <<[kind |-> "diameter_jump", current |-> "", next |-> ""]>>
                     ELSE <<>>)
        upTo[k \in 0..Len(s)] == IF k = 0 THEN <<>> ELSE upTo[k - 1] \o of(k)
    IN  IF Len(s) < 2 THEN <<>> ELSE upTo[Len(s) - 1]

\* the gap between two records in sorted order
PairGap ==
    LET s == SortedByStartPosition(sections_data)
    IN  s[2].start_position_in - s[1].end_position_in

\* C9: over the records sorted by start position, validate_sections_continuity
\* reports for each adjacent pair a gap issue iff next.start - prev.end > 0.01,
\* an overlap issue iff next.start - prev.end < 0 and a diameter-jump issue iff
\* |prev.end_diameter - next.start_diameter| > 1.0; a gap in (0, 0.01] gives
\* neither a gap nor an overlap issue.
C9_RecordContinuity ==
    op = "validate_sections_continuity" =>
        /\ result.kind = "return"
        /\ result.issues = ExpectedRecordContinuity(sections_data)
        /\ (Len(sections_data) = 2 /\ PairGap > 0 /\ PairGap <= 10)
              => (~ HasIssue("gap") /\ ~ HasIssue("overlap"))

C9_Witness ==
    /\ op = "validate_sections_continuity"
    /\ Len(sections_data) = 2
    /\ PairGap = 10
    /\ sections_data[1].start_position_in > sections_data[2].start_position_in
    /\ result.issues = <<[kind |-> "diameter_jump", current |-> "", next |-> ""]>>

\* C10 (as stated): validate_sections_continuity produces a gap issue for two
\* sections 0.5 in or 1 in apart, and also for two sections 0.005 in apart.
C10_FlagsFiveThousandths ==
    (op = "validate_sections_continuity" /\ Len(sections_data) = 2) =>
        /\ PairGap \in {500, 1000} => HasIssue("gap")
        /\ PairGap = 5 => HasIssue("gap")

\* C10 (amended): validate_sections_continuity produces a gap issue for two
\* sections 0.5 in or 1 in apart; for two sections 0.005 in apart it produces
\* no gap issue, its tolerance being 0.01 in.
C10_FiveThousandthsNotFlagged ==
    (op = "validate_sections_continuity" /\ Len(sections_data) = 2) =>
        /\ PairGap \in {500, 1000} => HasIssue("gap")
        /\ PairGap = 5 => ~ HasIssue("gap")

C10_Witness ==
    /\ op = "validate_sections_continuity"
    /\ Len(sections_data) = 2
    /\ PairGap = 5
    /\ result.issues = <<>>

(***************************************************************************)
(* Claims about the manufacturing checks (checked under SpecManufacturing) *)
(***************************************************************************)
RECURSIVE SelectKinds(_, _)
SelectKinds(issues, kinds) ==
    IF issues = <<>>
    THEN <<>>
    ELSE (IF Head(issues).kind \in kinds THEN <<Head(issues)>> ELSE <<>>)
         \o SelectKinds(Tail(issues), kinds)

KindsOf(issues) == [i \in 1..Len(issues) |-> issues[i].kind]

\* |taper angle| > 5 degrees, from the radii and the length: the slope in
\* mm per inch is 10 * |dr| / |len| in model units, its tangent is that over
\* 25.4, and tan(5 degrees) lies between 0.08748866 and 0.08748867
SteeperThanFiveDegrees(s) ==
    /\ s.end.x # s.start.x
    /\ 2206 * 100 * Abs(s.end.r - s.start.r) > 193 * 254 * Abs(s.end.x - s.start.x)

ExpectedTaperAndRadius(secs) ==
    LET of(i) ==
            (IF SteeperThanFiveDegrees(secs[i])
             THEN <<[kind |-> "taper_too_steep", section_type |-> secs[i].section_type,
                     types |-> {}]>>
             ELSE <<>>)
            \o (IF secs[i].start.r < 500 \/ secs[i].end.r < 500
                THEN <<[kind |-> "radius_too_small", section_type |-> secs[i].section_type,
                        types |-> {}]>>
                ELSE <<>>)
            \o (IF secs[i].start.r > 2500 \/ secs[i].end.r > 2500
                THEN <<[kind |-> "radius_too_large", section_type |-> secs[i].section_type,
                        types |-> {}]>>
                ELSE <<>>)
        upTo[k \in 0..Len(secs)] == IF k = 0 THEN <<>> ELSE upTo[k - 1] \o of(k)
    IN  upTo[Len(secs)]

ManufacturingOps ==
    {"validate_manufacturing_constraints",
     "CueGeometryValidator.validate_manufacturing_constraints"}

\* C11: validate_manufacturing_constraints emits, for every section
\* independently, a taper issue iff |taper_angle_degrees| > 5, a
\* radius-too-small issue iff min(start_radius, end_radius) < 5.0 and a
\* radius-too-large issue iff max(start_radius, end_radius) > 25.0; 5.0 mm is
\* not flagged, 4.99 mm is, and no issue suppresses a later check.
C11_TaperAndRadius ==
    op \in ManufacturingOps =>
        /\ result.kind = "return"
        /\ SelectKinds(result.issues,
                       {"taper_too_steep", "radius_too_small", "radius_too_large"})
             = ExpectedTaperAndRadius(sections)

C11_Witness ==
    /\ op = "validate_manufacturing_constraints"
    /\ Len(sections) = 2
    /\ sections[1].start.r = 500 /\ sections[1].end.r = 2500
    /\ sections[2].start.r = 499 /\ sections[2].end.r = 2501
    /\ KindsOf(result.issues)
         = <<"taper_too_steep", "taper_too_steep", "radius_too_small", "radius_too_large">>

ExpectedLengths(secs) ==
    LET of(i) ==
            (IF secs[i].end.x - secs[i].start.x < 2000
             THEN <<[kind |-> "too_short", section_type |-> secs[i].section_type,
                     types |-> {}]>>
             ELSE <<>>)
            \o (IF secs[i].end.x - secs[i].start.x > 20000
                THEN <<[kind |-> "too_long", section_type |-> secs[i].section_type,
                        types |-> {}]>>
                ELSE <<>>)
        upTo[k \in 0..Len(secs)] == IF k = 0 THEN <<>> ELSE upTo[k - 1] \o of(k)
    IN  upTo[Len(secs)]

DesignLength(secs) == IF secs = <<>> THEN 0 ELSE secs[Len(secs)].end.x - secs[1].start.x

\* C12: the validator's validate_manufacturing_constraints emits a too-short
\* issue for a section iff its length < 2.0 in, a too-long issue iff its
\* length > 20.0 in, and exactly one total-length issue iff total_length >
\* 40.0 in; 2 in, 20 in and a total of 40 in are accepted.
C12_Lengths ==
    op = "CueGeometryValidator.validate_manufacturing_constraints" =>
        /\ SelectKinds(result.issues, {"too_short", "too_long"}) = ExpectedLengths(sections)
        /\ Len(SelectKinds(result.issues, {"total_length_too_long"}))
             = (IF DesignLength(sections) > 40000 THEN 1 ELSE 0)

C12_Witness ==
    /\ op = "CueGeometryValidator.validate_manufacturing_constraints"
    /\ Len(sections) = 2
    /\ length(sections[1]) = 20000
    /\ length(sections[2]) = 20000
    /\ DesignLength(sections) = 40000
    /\ SelectKinds(result.issues, {"too_short", "too_long", "total_length_too_long"}) = <<>>

SomeTypeRepeats(secs) ==
    \E i, j \in 1..Len(secs) : i # j /\ secs[i].section_type = secs[j].section_type

\* C13: the validator's validate_manufacturing_constraints emits exactly one
\* duplicate-types issue iff some section type occurs more than once, however
\* many types repeat and however often, and none when all types are distinct.
C13_DuplicateTypes ==
    op = "CueGeometryValidator.validate_manufacturing_constraints" =>
        Len(SelectKinds(result.issues, {"duplicate_types"}))
          = (IF SomeTypeRepeats(sections) THEN 1 ELSE 0)

C13_Witness ==
    /\ op = "CueGeometryValidator.validate_manufacturing_constraints"
    /\ Len(sections) = 4
    /\ Cardinality(TypesOf(sections)) = 3
    /\ Len(SelectKinds(result.issues, {"duplicate_types"})) = 1

VALID_SEQUENCE == <<"joint", "forearm", "handle", "sleeve", "butt">>

\* f"Section {i + 1} should be '{expected_type}' but found '{actual_type}'"
MismatchIssue(i, expected_type, actual_type) ==
    [kind |-> "sequence_mismatch", index |-> i + 1, expected |-> expected_type,
     actual |-> actual_type]

\* the for loop over enumerate(VALID_SEQUENCE), from index i on
SequenceLoop(section_types) ==
    LET Loop[i \in 0..Len(VALID_SEQUENCE)] ==
            IF i >= Len(VALID_SEQUENCE) \/ i >= Len(section_types)
            THEN <<>>
            ELSE (IF section_types[i + 1] # VALID_SEQUENCE[i + 1]
                  THEN <<MismatchIssue(i, VALID_SEQUENCE[i + 1], section_types[i + 1])>>
                  ELSE <<>>)
                 \o Loop[i + 1]
    IN  Loop[0]

\* mutant: the records are taken in the caller's order
validate_section_sequence_CallerOrder(data) ==
    ReturnIssues(SequenceLoop([i \in 1..Len(data) |-> data[i].section_type]))

validate_section_sequence(data) ==
    IF data = <<>>
    THEN ReturnIssues(<<>>)
    ELSE LET sorted_sections == SortedByStartPosition(data)
             section_types ==
                 [i \in 1..Len(sorted_sections) |-> sorted_sections[i].section_type]
         IN  ReturnIssues(SequenceLoop(section_types))

MaxRecords == 6

SequenceTypes == {VALID_SEQUENCE[i] : i \in 1..Len(VALID_SEQUENCE)}

\* start positions of the i-th of n records: ascending, or descending in
\* pairs of records that start at the same place
SequenceOrders == {"ascending", "descending_pairs"}

SequenceStart(order, i, n) ==
    IF order = "ascending" THEN (i - 1) * 1000 ELSE ((n - i) \div 2) * 1000

SequenceInputs ==
    {[i \in 1..Len(types) |->
          LET sp == SequenceStart(order, i, Len(types))
          IN  SectionRecord(types[i], sp, sp + 1000, 2000, 2000)] :
        types \in SeqsUpTo(SequenceTypes, MaxRecords), order \in SequenceOrders}

InitSequence ==
    /\ section = NoSection
    /\ input_sections = <<>>
    /\ sections = <<>>
    /\ constructed = FALSE
    /\ sections_data \in SequenceInputs
    /\ section_data = NoRecord
    /\ pattern_data = NoPattern
    /\ transform = NoTransform
    /\ db = NoDb
    /\ first = NoFirst
    /\ op = "init"
    /\ arg = NoValue
    /\ result = NoResult

ValidateSectionSequence ==
    /\ op' = "validate_section_sequence"
    /\ arg' = NoValue
    /\ result' = validate_section_sequence(sections_data)
    /\ UNCHANGED <<section, input_sections, sections, constructed, sections_data,
                 section_data, pattern_data, transform, db, first>>

NextSequence == ValidateSectionSequence

SpecSequence == InitSequence /\ [][NextSequence]_vars

\* --- C14 ---------------------------------------------------------------

\* the place of record j when the records are ordered by start position,
\* records with equal starts keeping their order
RankByStart(data, j) ==
    1 + Cardinality({k \in 1..Len(data) :
            \/ data[k].start_position_in < data[j].start_position_in
            \/ data[k].start_position_in = data[j].start_position_in /\ k < j})

TypeAtRank(data, r) ==
    data[CHOOSE j \in 1..Len(data) : RankByStart(data, j) = r].section_type

\* the ranks, of the first five, whose type is not the canonical one
MismatchedRanks(data) ==
    {r \in 1..Min(Len(data), Len(VALID_SEQUENCE)) : TypeAtRank(data, r) # VALID_SEQUENCE[r]}

\* C14: validate_section_sequence returns exactly one mismatch issue for each
\* of the first min(n, 5) places, in start-position order, whose section type
\* differs from joint, forearm, handle, sleeve, butt at that place, naming
\* the place, the expected and the found type, and no other issue; sections
\* ordered forearm, handle, joint give exactly 3 issues and no issue names a
\* place beyond the fifth.
C14_SequenceMismatches ==
    op = "validate_section_sequence" =>
        /\ result.kind = "return"
        /\ Len(result.issues) = Cardinality(MismatchedRanks(sections_data))
        /\ \A i \in 1..Len(result.issues) :
               /\ result.issues[i].kind = "sequence_mismatch"
               /\ result.issues[i].index \in MismatchedRanks(sections_data)
               /\ result.issues[i].expected = VALID_SEQUENCE[result.issues[i].index]
               /\ result.issues[i].actual = TypeAtRank(sections_data, result.issues[i].index)
               /\ i > 1 => result.issues[i - 1].index < result.issues[i].index
        /\ (/\ Len(sections_data) = 3
            /\ [r \in 1..3 |-> TypeAtRank(sections_data, r)] = <<"forearm", "handle", "joint">>)
               => Len(result.issues) = 3

\* six records handed over last pair first whose order by start position is
\* forearm, handle, joint, sleeve, butt, joint: three issues, none for the sixth
C14_Witness ==
    /\ op = "validate_section_sequence"
    /\ Len(sections_data) = 6
    /\ [i \in 1..6 |-> sections_data[i].section_type]
           = <<"butt", "joint", "joint", "sleeve", "forearm", "handle">>
    /\ sections_data[1].start_position_in > sections_data[6].start_position_in
    /\ [i \in 1..Len(result.issues) |-> result.issues[i].index] = <<1, 2, 3>>

\* ---------------------------------------------------------------------
\* CueGeometryValidator.validate_section and validate_section_constraints
\* (validators.py 9-41, 132-163, 188-224).  Positions and lengths in mils,
\* diameters in 0.01 mm.
\* ---------------------------------------------------------------------

\* dict.get(key, default)
Get(d, key, default) == IF key \in DOMAIN d THEN d[key] ELSE default

FieldIssue(kind) == [kind |-> kind, section_type |-> "", label |-> ""]

MaxDiameter == 5000

\* abs(taper_rate) > 2.0, taper_rate in mm per inch
MaxTaperRate == 2

TaperRateTooSteep(start_diameter, end_diameter, len) ==
    Abs(end_diameter - start_diameter) * 10 > MaxTaperRate * len

\* mutant: a diameter of exactly 50 mm is refused
validate_section_FiftyInclusive(data) ==
    LET start_pos == Get(data, "start_position_in", 0)
        end_pos == Get(data, "end_position_in", 0)
        start_diameter == Get(data, "outer_diameter_start_mm", 0)
        end_diameter == Get(data, "outer_diameter_end_mm", 0)
        len == end_pos - start_pos
    IN  ReturnIssues(
            (IF start_pos >= end_pos THEN <<FieldIssue("start_not_before_end")>> ELSE <<>>)
            \o (IF start_pos < 0 THEN <<FieldIssue("negative_start")>> ELSE <<>>)
            \o (IF start_diameter <= 0 \/ end_diameter <= 0
                THEN <<FieldIssue("diameter_not_positive")>> ELSE <<>>)
            \o (IF start_diameter >= MaxDiameter \/ end_diameter >= MaxDiameter
                THEN <<FieldIssue("diameter_too_large")>> ELSE <<>>)
            \o (IF len > 0 /\ TaperRateTooSteep(start_diameter, end_diameter, len)
                THEN <<FieldIssue("taper_rate_too_steep")>> ELSE <<>>))

validate_section(data) ==
    LET start_pos == Get(data, "start_position_in", 0)
        end_pos == Get(data, "end_position_in", 0)
        start_diameter == Get(data, "outer_diameter_start_mm", 0)
        end_diameter == Get(data, "outer_diameter_end_mm", 0)
        len == end_pos - start_pos
    IN  ReturnIssues(
            (IF start_pos >= end_pos THEN <<FieldIssue("start_not_before_end")>> ELSE <<>>)
            \o (IF start_pos < 0 THEN <<FieldIssue("negative_start")>> ELSE <<>>)
            \o (IF start_diameter <= 0 \/ end_diameter <= 0
                THEN <<FieldIssue("diameter_not_positive")>> ELSE <<>>)
            \o (IF start_diameter > MaxDiameter \/ end_diameter > MaxDiameter
                THEN <<FieldIssue("diameter_too_large")>> ELSE <<>>)
            \o (IF len > 0 /\ TaperRateTooSteep(start_diameter, end_diameter, len)
                THEN <<FieldIssue("taper_rate_too_steep")>> ELSE <<>>))

\* the class attribute CueGeometryValidator.SECTION_CONSTRAINTS
SECTION_CONSTRAINTS ==
    [joint |-> [min_length_in |-> 500, max_length_in |-> 2000,
                min_diameter_mm |-> 1800, max_diameter_mm |-> 2500],
     forearm |-> [min_length_in |-> 8000, max_length_in |-> 14000,
                  min_diameter_mm |-> 1900, max_diameter_mm |-> 2400],
     handle |-> [min_length_in |-> 8000, max_length_in |-> 12000,
                 min_diameter_mm |-> 2000, max_diameter_mm |-> 2600],
     sleeve |-> [min_length_in |-> 4000, max_length_in |-> 8000,
                 min_diameter_mm |-> 2400, max_diameter_mm |-> 3200],
     butt |-> [min_length_in |-> 2000, max_length_in |-> 6000,
               min_diameter_mm |-> 2600, max_diameter_mm |-> 3200]]

\* the names bound at the top level of validators.py: its imports and its
\* two classes.  A name used in a method body that is neither a local nor a
\* builtin is looked up here; the attributes of the enclosing class are not
\* in scope.
ModuleGlobals ==
    {"ValidationError", "List", "Dict", "Any", "CueSectionGeometry",
     "CueDesignGeometry", "CueGeometryValidator", "InlayPatternValidator"}

ConstraintIssue(kind, section_type, label) ==
    [kind |-> kind, section_type |-> section_type, label |-> label]

DiameterIssues(section_type, constraints, diameter, label) ==
    (IF diameter < constraints.min_diameter_mm
     THEN <<ConstraintIssue("diameter_too_small", section_type, label)>> ELSE <<>>)
    \o (IF diameter > constraints.max_diameter_mm
        THEN <<ConstraintIssue("diameter_too_large", section_type, label)>> ELSE <<>>)

\* the body of validate_section_constraints once the table has been found
SectionConstraintIssues(table, data) ==
    LET section_type == data.section_type
    IN  IF section_type \notin DOMAIN table
        THEN ReturnIssues(<<>>)
        ELSE LET constraints == table[section_type]
                 len == Get(data, "end_position_in", 0) - Get(data, "start_position_in", 0)
                 start_diameter == Get(data, "outer_diameter_start_mm", 0)
                 end_diameter == Get(data, "outer_diameter_end_mm", 0)
             IN  ReturnIssues(
                     (IF len < constraints.min_length_in
                      THEN <<ConstraintIssue("too_short", section_type, "")>> ELSE <<>>)
                     \o (IF len > constraints.max_length_in
                         THEN <<ConstraintIssue("too_long", section_type, "")>> ELSE <<>>)
                     \o DiameterIssues(section_type, constraints, start_diameter, "Start")
                     \o DiameterIssues(section_type, constraints, end_diameter, "End"))

\* the bare name SECTION_CONSTRAINTS at line 194 is a global lookup
validate_section_constraints(data) ==
    IF "SECTION_CONSTRAINTS" \notin ModuleGlobals
    THEN Raise("NameError", "name 'SECTION_CONSTRAINTS' is not defined")
    ELSE SectionConstraintIssues(SECTION_CONSTRAINTS, data)

FieldTypes == {"joint", "butt", "shaft"}

FieldStarts == {-1000, 0, 2000}

FieldEnds == {0, 500, 2000, 2001, 6000, 7000}

FieldStartDiameters == {0, 1799, 1800, 2500, 2501, 3200, 5000, 5001}

FieldEndDiameters == {1800, 1900, 2600, 3201}

\* complete records, and records without the position and diameter keys
FieldInputs ==
    {SectionRecord(ty, sp, ep, sd, ed) :
        ty \in FieldTypes, sp \in FieldStarts, ep \in FieldEnds,
        sd \in FieldStartDiameters, ed \in FieldEndDiameters}
    \cup {[section_type |-> ty] : ty \in FieldTypes}

InitRecord ==
    /\ section = NoSection
    /\ input_sections = <<>>
    /\ sections = <<>>
    /\ constructed = FALSE
    /\ sections_data = <<>>
    /\ section_data \in FieldInputs
    /\ pattern_data = NoPattern
    /\ transform = NoTransform
    /\ db = NoDb
    /\ first = NoFirst
    /\ op = "init"
    /\ arg = NoValue
    /\ result = NoResult

ValidateSection ==
    /\ op' = "validate_section"
    /\ arg' = NoValue
    /\ result' = validate_section(section_data)
    /\ UNCHANGED <<section, input_sections, sections, constructed, sections_data,
                 section_data, pattern_data, transform, db, first>>

ValidateSectionConstraints ==
    /\ op' = "validate_section_constraints"
    /\ arg' = NoValue
    /\ result' = validate_section_constraints(section_data)
    /\ UNCHANGED <<section, input_sections, sections, constructed, sections_data,
                 section_data, pattern_data, transform, db, first>>

NextRecord == ValidateSection \/ ValidateSectionConstraints

SpecRecord == InitRecord /\ [][NextRecord]_vars

\* --- C15 ---------------------------------------------------------------

RecordLength == Get(section_data, "end_position_in", 0) - Get(section_data, "start_position_in", 0)

StartDiameter == Get(section_data, "outer_diameter_start_mm", 0)

EndDiameter == Get(section_data, "outer_diameter_end_mm", 0)

IssueCount(k, label) ==
    Cardinality({i \in 1..Len(result.issues) :
        result.issues[i].kind = k /\ result.issues[i].label = label})

Flag(cond) == IF cond THEN 1 ELSE 0

\* C15: validate_section_constraints returns an empty issue list, without
\* raising, for a record whose section type is not in the constraint table,
\* and for a known type returns one issue per violated bound of the table:
\* length below min, length above max, start and end diameter below min or
\* above max.
C15_SectionConstraints ==
    op = "validate_section_constraints" =>
        /\ result.kind = "return"
        /\ section_data.section_type \notin DOMAIN SECTION_CONSTRAINTS
               => result.issues = <<>>
        /\ section_data.section_type \in DOMAIN SECTION_CONSTRAINTS =>
               LET c == SECTION_CONSTRAINTS[section_data.section_type]
               IN  /\ IssueCount("too_short", "") = Flag(RecordLength < c.min_length_in)
                   /\ IssueCount("too_long", "") = Flag(RecordLength > c.max_length_in)
                   /\ IssueCount("diameter_too_small", "Start") = Flag(StartDiameter < c.min_diameter_mm)
                   /\ IssueCount("diameter_too_large", "Start") = Flag(StartDiameter > c.max_diameter_mm)
                   /\ IssueCount("diameter_too_small", "End") = Flag(EndDiameter < c.min_diameter_mm)
                   /\ IssueCount("diameter_too_large", "End") = Flag(EndDiameter > c.max_diameter_mm)

\* --- C18 ---------------------------------------------------------------

\* the five rules of the field validator, by the kind of their issue
RuleViolated(kind) ==
    CASE kind = "start_not_before_end" ->
             ~ (Get(section_data, "start_position_in", 0) < Get(section_data, "end_position_in", 0))
      [] kind = "negative_start" -> ~ (Get(section_data, "start_position_in", 0) >= 0)
      [] kind = "diameter_not_positive" -> ~ (StartDiameter > 0 /\ EndDiameter > 0)
      [] kind = "diameter_too_large" -> ~ (StartDiameter <= 5000 /\ EndDiameter <= 5000)
      [] kind = "taper_rate_too_steep" ->
             RecordLength > 0 /\ Abs(EndDiameter - StartDiameter) * 5 > RecordLength

FieldRules ==
    {"start_not_before_end", "negative_start", "diameter_not_positive",
     "diameter_too_large", "taper_rate_too_steep"}

\* C18: validate_section returns an empty issue list iff start < end,
\* start >= 0, both diameters > 0 and <= 50 mm and
\* |end_diameter - start_diameter| / (end - start) <= 2.0 mm per inch; a
\* record with start > end yields at least one issue; each violated rule
\* contributes exactly one issue of its own.
C18_ValidateSection ==
    op = "validate_section" =>
        /\ result.kind = "return"
        /\ result.issues = <<>> <=> \A k \in FieldRules : ~ RuleViolated(k)
        /\ Get(section_data, "start_position_in", 0) > Get(section_data, "end_position_in", 0)
               => Len(result.issues) >= 1
        /\ \A k \in FieldRules : IssueCount(k, "") = Flag(RuleViolated(k))
        /\ Len(result.issues) = Cardinality({k \in FieldRules : RuleViolated(k)})

\* a record that starts before 0, has a diameter above 50 mm and tapers too
\* steeply gets three issues
C18_Witness ==
    /\ op = "validate_section"
    /\ section_data = SectionRecord("joint", -1000, 500, 5001, 1800)
    /\ KindsOf(result.issues) = <<"negative_start", "diameter_too_large", "taper_rate_too_steep">>

\* --- C19 ---------------------------------------------------------------

ValidatorOps ==
    {"validate_section", "validate_sections_continuity", "validate_section_sequence",
     "validate_section_constraints", "CueGeometryValidator.validate_manufacturing_constraints"}

\* C19: every validator of section records terminates by returning an issue
\* list and never by raising, whatever the positions, diameters and type of
\* the records (zero-length, out-of-bound and unknown-type records included).
C19_NeverRaises ==
    op \in ValidatorOps => result.kind = "return"

\* ---------------------------------------------------------------------
\* InlayPatternValidator (validators.py 227-354).  A dict is a function
\* from the keys that may occur to values; a key that does not occur is
\* mapped to Absent.  A value is a string, an integer, or a dict of which
\* only the number of entries matters.
\* ---------------------------------------------------------------------

Absent == [t |-> "absent", s |-> "", n |-> 0]

StrValue(s) == [t |-> "str", s |-> s, n |-> 0]

IntValue(n) == [t |-> "int", s |-> "", n |-> n]

\* key in d
HasKey(d, key) == d[key].t # "absent"

\* bool(d.get(key)): None, "", 0 and {} are false
Truthy(v) ==
    CASE v.t = "absent" -> FALSE
      [] v.t = "str" -> v.s # ""
      [] OTHER -> v.n # 0

\* bool(d) of a dict d over the keys of its domain
TruthyDict(d) == \E key \in DOMAIN d : HasKey(d, key)

\* value in a list of strings
InList(v, valid) == v.t = "str" /\ v.s \in valid

VALID_CATEGORIES == {"boxed", "slash", "dot", "wrap", "inlay"}

VALID_STYLES ==
    {"window_box", "raised_box", "recessed_box", "single_slash", "double_slash",
     "cross_slash", "single_dot", "double_dot", "cluster_dot", "full_wrap",
     "partial_wrap", "spiral_wrap", "surface_inlay", "pocket_inlay", "inlay_ring"}

VALID_MATERIALS ==
    {"ebony", "maple", "rosewood", "cocobolo", "ivory", "abalone", "mother_of_pearl",
     "turquoise", "silver", "gold", "brass"}

PatternIssue(kind, field) == [kind |-> kind, field |-> field]

\* for field in required: if field not in d: issues.append(...)
RequiredFieldIssues(d, required, kind) ==
    LET Loop[i \in 1..(Len(required) + 1)] ==
            IF i > Len(required)
            THEN <<>>
            ELSE (IF ~ HasKey(d, required[i])
                  THEN <<PatternIssue(kind, required[i])>> ELSE <<>>)
                 \o Loop[i + 1]
    IN  Loop[1]

\* mutant: the value is checked against the list even when it is missing
MembershipIssue_NoTruthTest(d, key, valid, kind) ==
    IF ~ InList(d[key], valid) THEN <<PatternIssue(kind, key)>> ELSE <<>>

\* value = d.get(key); if value and value not in valid: issues.append(...)
MembershipIssue(d, key, valid, kind) ==
    IF Truthy(d[key]) /\ ~ InList(d[key], valid)
    THEN <<PatternIssue(kind, key)>> ELSE <<>>

MinRepeatCount == 1

MaxRepeatCount == 24

\* repeat_count = d.get("repeat_count", 1), then the isinstance and range test
RepeatCountIssues(d) ==
    LET repeat_count == IF HasKey(d, "repeat_count") THEN d["repeat_count"] ELSE IntValue(1)
    IN  IF \/ repeat_count.t # "int"
           \/ repeat_count.n < MinRepeatCount
           \/ repeat_count.n > MaxRepeatCount
        THEN <<PatternIssue("invalid_repeat_count", "repeat_count")>> ELSE <<>>

\* value = d.get(key); if value and not isinstance(value, dict): ...
ObjectIssue(d, key, kind) ==
    IF Truthy(d[key]) /\ d[key].t # "dict" THEN <<PatternIssue(kind, key)>> ELSE <<>>

_validate_geometric_definition(geom_def) ==
    (IF ~ InList(geom_def["geometry_type"], {"rectangular_prism", "cylinder", "sphere", "custom"})
     THEN <<PatternIssue("invalid_geometry_type", "geometry_type")>> ELSE <<>>)
    \o ObjectIssue(geom_def, "dimensions_mm", "dimensions_not_object")
    \o ObjectIssue(geom_def, "orientation", "orientation_not_object")
    \o ObjectIssue(geom_def, "positioning", "positioning_not_object")

_validate_material_assignment(material_assign) ==
    RequiredFieldIssues(material_assign, <<"base_material", "inlay_material">>,
                        "missing_material_field")
    \o MembershipIssue(material_assign, "base_material", VALID_MATERIALS, "invalid_material")
    \o MembershipIssue(material_assign, "inlay_material", VALID_MATERIALS, "invalid_material")
    \o MembershipIssue(material_assign, "contrast_level", {"low", "medium", "high"},
                       "invalid_contrast_level")
    \o MembershipIssue(material_assign, "finish_type", {"matte", "satin", "high_gloss"},
                       "invalid_finish_type")

\* a pattern: its own keys in .fields, and the two nested dicts, each with
\* .present (the key occurs) and .fields
validate_pattern(pattern) ==
    LET geom_def == pattern.geometric_definition
        material_assign == pattern.material_assignment
        required_fields == <<"pattern_id", "pattern_category", "pattern_style">>
    IN  ReturnIssues(
            RequiredFieldIssues(pattern.fields, required_fields, "missing_required_field")
            \o MembershipIssue(pattern.fields, "pattern_category", VALID_CATEGORIES,
                               "invalid_category")
            \o MembershipIssue(pattern.fields, "pattern_style", VALID_STYLES, "invalid_style")
            \o RepeatCountIssues(pattern.fields)
            \o (IF geom_def.present /\ TruthyDict(geom_def.fields)
                THEN _validate_geometric_definition(geom_def.fields) ELSE <<>>)
            \o (IF material_assign.present /\ TruthyDict(material_assign.fields)
                THEN _validate_material_assignment(material_assign.fields) ELSE <<>>))

PatternFieldInputs ==
    [pattern_id : {Absent, StrValue("p1")},
     pattern_category : {Absent, StrValue("boxed"), StrValue("zigzag"), StrValue("")},
     pattern_style : {Absent, StrValue("window_box"), StrValue("plaid")},
     repeat_count : {Absent, IntValue(0), IntValue(24), IntValue(25), StrValue("3")}]

DictValue(n) == [t |-> "dict", s |-> "", n |-> n]

GeometricDict(geometry_type, dimensions_mm, positioning) ==
    [geometry_type |-> geometry_type, dimensions_mm |-> dimensions_mm,
     orientation |-> Absent, positioning |-> positioning]

GeometricFieldInputs ==
    {GeometricDict(Absent, Absent, Absent),
     GeometricDict(StrValue("cylinder"), DictValue(2), DictValue(0)),
     GeometricDict(StrValue("cone"), StrValue("10x5"), Absent),
     GeometricDict(Absent, Absent, StrValue("centered"))}

\* "notes" stands for any key the validator does not read
MaterialFieldInputs ==
    [base_material : {Absent, StrValue("ebony"), StrValue("plastic"), StrValue("")},
     inlay_material : {Absent, StrValue("ivory"), StrValue("plastic")},
     contrast_level : {Absent, StrValue("high"), StrValue("extreme")},
     finish_type : {Absent, StrValue("matte")},
     notes : {Absent}]
    \cup {[base_material |-> Absent, inlay_material |-> Absent, contrast_level |-> Absent,
           finish_type |-> Absent, notes |-> StrValue("x")]}

NoFields(keys) == [key \in keys |-> Absent]

NestedInputs(dicts, keys) ==
    {[present |-> FALSE, fields |-> NoFields(keys)]}
    \cup {[present |-> TRUE, fields |-> d] : d \in dicts}

PatternInputs ==
    [t : {"pattern"},
     fields : PatternFieldInputs,
     geometric_definition :
         NestedInputs(GeometricFieldInputs,
                      {"geometry_type", "dimensions_mm", "orientation", "positioning"}),
     material_assignment :
         NestedInputs(MaterialFieldInputs,
                      {"base_material", "inlay_material", "contrast_level", "finish_type",
                       "notes"})]

InitPattern ==
    /\ section = NoSection
    /\ input_sections = <<>>
    /\ sections = <<>>
    /\ constructed = FALSE
    /\ sections_data = <<>>
    /\ section_data = NoRecord
    /\ pattern_data \in PatternInputs
    /\ transform = NoTransform
    /\ db = NoDb
    /\ first = NoFirst
    /\ op = "init"
    /\ arg = NoValue
    /\ result = NoResult

ValidatePattern ==
    /\ op' = "validate_pattern"
    /\ arg' = NoValue
    /\ result' = validate_pattern(pattern_data)
    /\ UNCHANGED <<section, input_sections, sections, constructed, sections_data,
                 section_data, pattern_data, transform, db, first>>

NextPattern == ValidatePattern

SpecPattern == InitPattern /\ [][NextPattern]_vars

\* --- C16 ---------------------------------------------------------------

PatternIssueCount(k, f) ==
    Cardinality({i \in 1..Len(result.issues) :
        result.issues[i].kind = k /\ result.issues[i].field = f})

KindCount(k) == Cardinality({i \in 1..Len(result.issues) : result.issues[i].kind = k})

RequiredFields == {"pattern_id", "pattern_category", "pattern_style"}

IsAbsent(d, key) == d[key] = Absent

\* C16: validate_pattern emits one missing-required-field issue per absent
\* required key and skips the membership check of an absent category or
\* style; a pattern with a valid pattern_id and pattern_category but no
\* pattern_style key gets exactly one missing-required-field issue and no
\* category or style issue.
C16_MissingStyle ==
    op = "validate_pattern" =>
        /\ result.kind = "return"
        /\ \A f \in RequiredFields :
               PatternIssueCount("missing_required_field", f)
                   = Flag(IsAbsent(pattern_data.fields, f))
        /\ KindCount("missing_required_field")
               = Cardinality({f \in RequiredFields : IsAbsent(pattern_data.fields, f)})
        /\ IsAbsent(pattern_data.fields, "pattern_category") => KindCount("invalid_category") = 0
        /\ IsAbsent(pattern_data.fields, "pattern_style") => KindCount("invalid_style") = 0
        /\ (/\ pattern_data.fields.pattern_id = StrValue("p1")
            /\ pattern_data.fields.pattern_category = StrValue("boxed")
            /\ IsAbsent(pattern_data.fields, "pattern_style"))
               => /\ KindCount("missing_required_field") = 1
                  /\ KindCount("invalid_category") = 0
                  /\ KindCount("invalid_style") = 0

\* {"pattern_id": "p1", "pattern_category": "boxed"} gets the one issue
\* "Missing required field: pattern_style"
C16_Witness ==
    /\ op = "validate_pattern"
    /\ pattern_data.fields =
           [pattern_id |-> StrValue("p1"), pattern_category |-> StrValue("boxed"),
            pattern_style |-> Absent, repeat_count |-> Absent]
    /\ ~ pattern_data.geometric_definition.present
    /\ ~ pattern_data.material_assignment.present
    /\ result = ReturnIssues(<<PatternIssue("missing_required_field", "pattern_style")>>)

\* --- C17 ---------------------------------------------------------------

\* C17: for every pattern that carries a material assignment, the empty one
\* included, validate_pattern reports a missing-field issue for each of
\* base_material and inlay_material that is absent and an invalid-material
\* issue for each of them that is present but not a valid material.
C17_MaterialFields ==
    (op = "validate_pattern" /\ pattern_data.material_assignment.present) =>
        /\ result.kind = "return"
        /\ \A f \in {"base_material", "inlay_material"} :
               LET v == pattern_data.material_assignment.fields[f]
               IN  /\ PatternIssueCount("missing_material_field", f) = Flag(v = Absent)
                   /\ PatternIssueCount("invalid_material", f)
                          = Flag(v # Absent /\ v.s \notin VALID_MATERIALS)

\* ---------------------------------------------------------------------
\* From section records to a design (views.py 66-75, serializers.py 60-72)
\* and the operations on both, in one specification
\* ---------------------------------------------------------------------

\* Point3D(start_position_in, outer_diameter_start_mm / 2) and
\* Point3D(end_position_in, outer_diameter_end_mm / 2); the diameters of the
\* records below are even, so the halves are whole
SectionFromRecord(r) ==
    CueSectionGeometry(r.section_type,
                       Point3D(r.start_position_in, r.outer_diameter_start_mm \div 2),
                       Point3D(r.end_position_in, r.outer_diameter_end_mm \div 2))

SectionsFromRecords(data) == [i \in 1..Len(data) |-> SectionFromRecord(data[i])]

\* spans of which two start at 0 and two end at 20 in
PipelineSpans == {<<0, 10000>>, <<0, 5000>>, <<10000, 20000>>, <<5000, 20000>>}

PipelineDiameters == {<<2000, 2000>>, <<2000, 2400>>}

PipelineTypes == {"joint", "forearm"}

\* a straight joint and a straight or tapered forearm of every span
PipelineRecords ==
    {SectionRecord(ty, sp[1], sp[2], dd[1], dd[2]) :
        ty \in PipelineTypes, sp \in PipelineSpans, dd \in PipelineDiameters}
    \ {SectionRecord("joint", sp[1], sp[2], 2000, 2400) : sp \in PipelineSpans}

InitPipeline ==
    /\ section = NoSection
    /\ sections_data \in SeqsUpTo(PipelineRecords, MaxSections)
    /\ input_sections = SectionsFromRecords(sections_data)
    /\ sections = <<>>
    /\ constructed = FALSE
    /\ section_data = NoRecord
    /\ pattern_data = NoPattern
    /\ transform = NoTransform
    /\ db = NoDb
    /\ first = NoFirst
    /\ op = "init"
    /\ arg = NoValue
    /\ result = NoResult

NextPipeline ==
    \/ Construct
    \/ RadiusAtPosition
    \/ TotalLength
    \/ ValidateContinuity
    \/ ValidateManufacturingConstraints
    \/ ValidateSectionsContinuity
    \/ ValidateSectionSequence

SpecPipeline == InitPipeline /\ [][NextPipeline]_vars

\* --- C21 ---------------------------------------------------------------

\* C21: no geometry or validator operation has a side effect: constructing
\* a design, radius queries, validate_continuity,
\* validate_manufacturing_constraints, validate_sections_continuity and
\* validate_section_sequence leave the caller's list of sections (order and
\* elements), the caller's list of records and, once the design is built,
\* the design's sections as they were.  The constant tables are definitions
\* of this module, which no step can change.
C21_NoSideEffect ==
    [][/\ input_sections' = input_sections
       /\ sections_data' = sections_data
       /\ constructed => sections' = sections]_vars

\* a design built from sections handed over out of order, later validated:
\* the caller's list is still out of order
C21_Witness ==
    /\ op = "validate_continuity"
    /\ constructed
    /\ Len(input_sections) = 2
    /\ input_sections[1].start.x > input_sections[2].start.x
    /\ sections = <<input_sections[2], input_sections[1]>>
    /\ sections_data[1].start_position_in > sections_data[2].start_position_in

\* --- C29 ---------------------------------------------------------------

Reorderings(n) == {f \in [1..n -> 1..n] : \A i, j \in 1..n : f[i] = f[j] => i = j}

Permuted(seq, f) == [i \in 1..Len(seq) |-> seq[f[i]]]

\* every reordering of the caller's list gives what the step at hand gave
SameForEveryOrder ==
    \A f \in Reorderings(Len(sections_data)) :
        LET data == Permuted(sections_data, f)
            secs == CueDesignGeometry(Permuted(input_sections, f))
        IN  /\ op = "CueDesignGeometry" => sections = secs
            /\ op = "total_length" => result = total_length(secs)
            /\ op = "validate_continuity" => result = validate_continuity(secs)
            /\ op = "validate_sections_continuity"
                   => result = validate_sections_continuity(data)
            /\ op = "validate_section_sequence"
                   => result = validate_section_sequence(data)

DistinctStarts ==
    \A i, j \in 1..Len(sections_data) :
        sections_data[i].start_position_in = sections_data[j].start_position_in => i = j

\* C29 as claimed: for every permutation of the same section records, sets
\* in which two sections share a start position included,
\* validate_sections_continuity and validate_section_sequence return the
\* same issues and CueDesignGeometry yields the same sections, total_length
\* and validate_continuity result.
C29_AnyOrder == SameForEveryOrder

\* C29 as amended: the same, for records whose start positions are pairwise
\* different.
C29_DistinctStarts == DistinctStarts => SameForEveryOrder

\* two records with different starts handed over last first, continuity of
\* the records checked
C29_Witness ==
    /\ op = "validate_sections_continuity"
    /\ Len(sections_data) = 2
    /\ sections_data[1].start_position_in > sections_data[2].start_position_in
    /\ Len(result.issues) > 0

\* ---------------------------------------------------------------------
\* CueDesignViewSet.profile_data (views.py 61-105): the profile samples of
\* the design built from the stored section records
\* ---------------------------------------------------------------------

\* a returned list, carried in the list field of the outcome
ReturnPoints(points) == ReturnIssues(points)

\* int(q) of a quotient q: towards zero
Trunc(q) == Sgn(q[1]) * (Abs(q[1]) \div q[2])

\* mils per sample: x = i / 10 inches
SampleStep == 100

\* {"x": x, "radius": radius, "diameter": radius * 2}
ProfilePoint(x, radius) ==
    [x |-> x, radius |-> radius, diameter |-> RatMul(radius, RatOfInt(2))]

\* the body of the for loop over range(count), from index i on; a
\* ValueError skips the sample, any other error ends the request
ProfileLoop(secs, count, Point(_, _)) ==
    LET Loop[i \in 0..Max(count, 0)] ==
            IF i >= count
            THEN ReturnPoints(<<>>)
            ELSE LET x == RatOfInt(i * SampleStep)
                     radius == CueDesignGeometry_radius_at_position(secs, x)
                 IN  IF radius.kind = "raise"
                     THEN (IF radius.exc = "ValueError" THEN Loop[i + 1] ELSE radius)
                     ELSE IF Loop[i + 1].kind = "raise"
                          THEN Loop[i + 1]
                          ELSE ReturnPoints(<<Point(x, radius.value)>> \o Loop[i + 1].issues)
    IN  Loop[0]

\* range(int(geometry.total_length * 10) + 1), the length being in mils
SampleCount(secs) ==
    Trunc(RatDiv(total_length(secs).value, RatOfInt(SampleStep))) + 1

\* mutant: the diameter of a sample is its radius
profile_data_DiameterIsRadius(data) ==
    LET geometry == CueDesignGeometry(SectionsFromRecords(data))
    IN  ProfileLoop(geometry, SampleCount(geometry),
                    LAMBDA x, radius : [x |-> x, radius |-> radius, diameter |-> radius])

profile_data(data) ==
    LET geometry == CueDesignGeometry(SectionsFromRecords(data))
    IN  ProfileLoop(geometry, SampleCount(geometry), ProfilePoint)

\* short sections, so that a profile has few samples: abutting, with a gap,
\* overlapping, with bounds between two samples, of length zero, reversed
ProfileSpans ==
    {<<0, 300>>, <<300, 600>>, <<500, 800>>, <<250, 550>>, <<0, 0>>, <<600, 300>>}

ProfileDiameters == {<<2000, 2000>>, <<2000, 2400>>}

ProfileRecords ==
    {SectionRecord("forearm", sp[1], sp[2], dd[1], dd[2]) :
        sp \in ProfileSpans, dd \in ProfileDiameters}

InitProfile ==
    /\ section = NoSection
    /\ sections_data \in SeqsUpTo(ProfileRecords, MaxSections)
    /\ input_sections = SectionsFromRecords(sections_data)
    /\ sections = CueDesignGeometry(input_sections)
    /\ constructed = TRUE
    /\ section_data = NoRecord
    /\ pattern_data = NoPattern
    /\ transform = NoTransform
    /\ db = NoDb
    /\ first = NoFirst
    /\ op = "init"
    /\ arg = NoValue
    /\ result = NoResult

ProfileData ==
    /\ op' = "profile_data"
    /\ arg' = NoValue
    /\ result' = profile_data(sections_data)
    /\ UNCHANGED <<section, input_sections, sections, constructed, sections_data,
                 section_data, pattern_data, transform, db, first>>

NextProfile == ProfileData

SpecProfile == InitProfile /\ [][NextProfile]_vars


\* --- C22 ---------------------------------------------------------------

\* the positions i/10 in, i in 0..floor(total_length * 10), inside a section
ExpectedSamplePositions ==
    LET len == total_length(sections).value[1]
        top == IF len >= 0 THEN len \div SampleStep ELSE -1
    IN  {i * SampleStep : i \in {j \in 0..top : AnyContains(sections, RatOfInt(j * SampleStep))}}

\* C22: profile_data never fails and returns, in ascending order, exactly
\* the positions x = i/10 for i in 0..floor(total_length * 10) that lie
\* inside some section, leaving out every position in a gap or outside the
\* design.
C22_ProfileSamples ==
    op = "profile_data" =>
        /\ result.kind = "return"
        /\ {result.issues[i].x[1] : i \in 1..Len(result.issues)} = ExpectedSamplePositions
        /\ \A i \in 1..Len(result.issues) :
               /\ result.issues[i].x[2] = 1
               /\ i > 1 => result.issues[i - 1].x[1] < result.issues[i].x[1]

\* --- C23 ---------------------------------------------------------------

\* C23: every sample that profile_data returns has the radius that
\* radius_at_position of the same design returns at the sample's position,
\* which lies on the line of the first section containing that position, and
\* a diameter of twice that radius.
C23_SamplesAreRadii ==
    (op = "profile_data" /\ result.kind = "return") =>
        \A i \in 1..Len(result.issues) :
            LET sample == result.issues[i]
            IN  /\ CueDesignGeometry_radius_at_position(sections, sample.x)
                       = Return(sample.radius)
                /\ IsInterpolation(sample.radius,
                                   sections[FirstContaining(sections, sample.x)], sample.x)
                /\ sample.diameter[1] * sample.radius[2] = 2 * sample.radius[1] * sample.diameter[2]

\* a constant section and a tapered one with a gap between them: samples at
\* 0 .. 0.3 in and 0.5 .. 0.8 in, the one at 0.6 in with radius 10.67 mm
C23_Witness ==
    /\ op = "profile_data"
    /\ sections_data = <<SectionRecord("forearm", 500, 800, 2000, 2400),
                         SectionRecord("forearm", 0, 300, 2000, 2000)>>
    /\ Len(result.issues) = 8
    /\ result.issues[6] = [x |-> <<600, 1>>, radius |-> <<3200, 3>>, diameter |-> <<6400, 3>>]

\* ---------------------------------------------------------------------
\* CoordinateTransform (rendering/coordinate_transform.py).  Drawing
\* coordinates are exact quotients.
\* ---------------------------------------------------------------------

\* __init__(width, height, padding)
CoordinateTransform(width, height, padding) ==
    [width |-> width, height |-> height, padding |-> padding]

available_width(tr) == tr.width - 2 * tr.padding

available_height(tr) == tr.height - 2 * tr.padding

\* a returned tuple, carried in the list field of the outcome
ReturnTuple(tuple) == ReturnIssues(tuple)

\* height // 2 of a height >= 0
FloorHalf(height) == height \div 2

\* the two coordinates, given the height of the centerline; the four
\* arguments are quotients
SvgCoordinates(tr, centerline, x_in, radius_mm, cue_length, max_radius) ==
    IF cue_length[1] = 0 \/ max_radius[1] = 0
    THEN Raise("ZeroDivisionError", "float division by zero")
    ELSE ReturnTuple(
             <<RatAdd(RatOfInt(tr.padding),
                      RatMul(RatDiv(x_in, cue_length), RatOfInt(available_width(tr)))),
               RatSub(centerline,
                      RatMul(RatDiv(radius_mm, max_radius), Rat(available_height(tr), 2)))>>)

\* mutant: the centerline is at height / 2
geometry_to_svg_TrueHalf(tr, x_in, radius_mm, cue_length, max_radius) ==
    SvgCoordinates(tr, Rat(tr.height, 2), x_in, radius_mm, cue_length, max_radius)

\* svg_x = padding + (x_in / cue_length) * available_width
\* svg_y = height // 2 - (radius_mm / max_radius) * (available_height / 2)
geometry_to_svg(tr, x_in, radius_mm, cue_length, max_radius) ==
    SvgCoordinates(tr, RatOfInt(FloorHalf(tr.height)), x_in, radius_mm, cue_length, max_radius)

\* the default canvas, one of odd height without padding, one narrower than
\* its padding
TransformInputs ==
    {CoordinateTransform(1200, 400, 50), CoordinateTransform(800, 401, 0),
     CoordinateTransform(60, 400, 50)}

TransformPositions == {0, 5000, 10000, 20000, 29000}

TransformRadii == {-1100, -500, 0, 500, 1100}

TransformLengths == {-20000, 0, 20000, 29000}

TransformMaxRadii == {-1100, 0, 1100}

InitTransform ==
    /\ section = NoSection
    /\ input_sections = <<>>
    /\ sections = <<>>
    /\ constructed = FALSE
    /\ sections_data = <<>>
    /\ section_data = NoRecord
    /\ pattern_data = NoPattern
    /\ transform \in TransformInputs
    /\ db = NoDb
    /\ first = NoFirst
    /\ op = "init"
    /\ arg = NoValue
    /\ result = NoResult

\* arg = <<x_in, radius_mm, cue_length, max_radius>>
GeometryToSvg ==
    /\ \E x_in \in TransformPositions, radius_mm \in TransformRadii,
          cue_length \in TransformLengths, max_radius \in TransformMaxRadii :
          /\ op' = "geometry_to_svg"
          /\ arg' = <<x_in, radius_mm, cue_length, max_radius>>
          /\ result' = geometry_to_svg(transform, RatOfInt(x_in), RatOfInt(radius_mm),
                                       RatOfInt(cue_length), RatOfInt(max_radius))
    /\ UNCHANGED <<section, input_sections, sections, constructed, sections_data,
                 section_data, pattern_data, transform, db, first>>

NextTransform == GeometryToSvg

SpecTransform == InitTransform /\ [][NextTransform]_vars

\* --- C24 ---------------------------------------------------------------

\* the coordinates geometry_to_svg gives on the canvas and scales at hand
SvgX(x_in) ==
    geometry_to_svg(transform, RatOfInt(x_in), RatOfInt(arg[2]), RatOfInt(arg[3]),
                    RatOfInt(arg[4])).issues[1]

SvgY(radius_mm) ==
    geometry_to_svg(transform, RatOfInt(arg[1]), RatOfInt(radius_mm), RatOfInt(arg[3]),
                    RatOfInt(arg[4])).issues[2]

RatLeq(p, q) == ~ RatLess(q, p)

\* x = 0 at the padding, x = cue_length at width - padding, order kept, equal
\* steps of x giving equal steps of svg_x; radius 0 at height // 2, r and -r
\* at equal distances on opposite sides of it, r = max_radius at
\* height // 2 - (height - 2 * padding) / 2
MapsAcrossPaddedCanvas ==
    LET centerline == RatOfInt(transform.height \div 2)
    IN  /\ result.kind = "return"
        /\ SvgX(0) = RatOfInt(transform.padding)
        /\ SvgX(arg[3]) = RatOfInt(transform.width - transform.padding)
        /\ \A x2 \in TransformPositions : arg[1] <= x2 => RatLeq(result.issues[1], SvgX(x2))
        /\ RatSub(SvgX(2 * arg[1]), result.issues[1]) = RatSub(result.issues[1], SvgX(0))
        /\ SvgY(0) = centerline
        /\ RatSub(result.issues[2], centerline) = RatSub(centerline, SvgY(- arg[2]))
        /\ RatSub(SvgY(2 * arg[2]), result.issues[2]) = RatSub(result.issues[2], SvgY(0))
        /\ SvgY(arg[4])
               = RatSub(centerline, Rat(transform.height - 2 * transform.padding, 2))

\* C24 as claimed: geometry_to_svg maps x linearly across the padded width
\* (0 to padding, cue_length to width - padding, x1 <= x2 implies
\* svg_x1 <= svg_x2) and the radius linearly across half the padded height,
\* mirrored about the centerline height // 2, with max_radius at
\* height // 2 - (height - 2 * padding) / 2.
C24_LinearMap == op = "geometry_to_svg" => MapsAcrossPaddedCanvas

\* C24 as amended: the same, for a canvas at least as wide as twice its
\* padding, a cue length > 0 and a maximum radius other than 0.
C24_LinearMapOfPositiveLength ==
    (/\ op = "geometry_to_svg"
     /\ transform.width >= 2 * transform.padding
     /\ arg[3] > 0
     /\ arg[4] # 0) => MapsAcrossPaddedCanvas

\* the default canvas: x = 10 of 20 in lands at 600, radius 5 of 11 mm at
\* 200 - 750/11
C24_Witness ==
    /\ op = "geometry_to_svg"
    /\ transform = CoordinateTransform(1200, 400, 50)
    /\ arg = <<10000, 500, 20000, 1100>>
    /\ result = ReturnTuple(<<<<600, 1>>, <<1450, 11>>>>)

(***************************************************************************)
(* SVGGenerator: the path of the profile fill                              *)
(***************************************************************************)
Reverse(seq) == [i \in 1..Len(seq) |-> seq[Len(seq) + 1 - i]]

\* the samples of the top edge, section by section, each <<x, radius>> at
\* t = i / steps for i in range(steps + 1)
TopSamples(secs, steps) ==
    [k \in 1..(Len(secs) * (steps + 1)) |->
        LET s == secs[(k - 1) \div (steps + 1) + 1]
            t == Rat((k - 1) % (steps + 1), steps)
        IN  <<RatAdd(RatOfInt(s.start.x), RatMul(t, RatOfInt(s.end.x - s.start.x))),
              RatAdd(RatOfInt(start_radius(s)),
                     RatMul(t, RatOfInt(end_radius(s) - start_radius(s))))>>]

\* the samples of the walk back, over reversed(sections), from each
\* section's end to its start
BottomSamples(secs, steps) ==
    [k \in 1..(Len(secs) * (steps + 1)) |->
        LET s == Reverse(secs)[(k - 1) \div (steps + 1) + 1]
            t == Rat((k - 1) % (steps + 1), steps)
        IN  <<RatSub(RatOfInt(s.end.x), RatMul(t, RatOfInt(s.end.x - s.start.x))),
              RatSub(RatOfInt(end_radius(s)),
                     RatMul(t, RatOfInt(end_radius(s) - start_radius(s))))>>]

RatNeg(q) == <<- q[1], q[2]>>

\* width, height of the generator's canvas and the padding of the transform
\* it builds
SvgWidth == 1200

SvgHeight == 400

SvgPadding == 50

\* steps = 20
PathSteps == 20

\* the radius _get_max_radius returns for a design without sections, 10.0 mm
DefaultMaxRadius == 1000

\* max_radius * 1.1, max_radius starting at 0.0
_get_max_radius(secs) ==
    IF secs = <<>>
    THEN RatOfInt(DefaultMaxRadius)
    ELSE LET Largest[i \in 0..Len(secs)] ==
                 IF i = 0
                 THEN 0
                 ELSE Max(Max(Largest[i - 1], start_radius(secs[i])), end_radius(secs[i]))
         IN  Rat(11 * Largest[Len(secs)], 10)

\* f"{v:.1f}": the number of tenths nearest to v, a tie going to the even one
FormatTenths(q) ==
    LET n == 10 * q[1]
        whole == n \div q[2]
        rest == n - whole * q[2]
    IN  IF 2 * rest < q[2] THEN whole
        ELSE IF 2 * rest > q[2] THEN whole + 1
        ELSE IF whole % 2 = 0 THEN whole ELSE whole + 1

\* f"{svg_x:.1f},{svg_y:.1f}"
FormatPoint(svg) == <<FormatTenths(svg[1]), FormatTenths(svg[2])>>

\* the points of "M p1 L p2 ... Z", "" having none; Samples gives the walk
\* back and Side the sign of its radii
ProfilePath(secs, Samples(_, _), Side(_)) ==
    IF secs = <<>>
    THEN ReturnPoints(<<>>)
    ELSE LET tr == CoordinateTransform(SvgWidth, SvgHeight, SvgPadding)
             max_radius == _get_max_radius(secs)
             cue_length == total_length(secs).value
             top == TopSamples(secs, PathSteps)
             bottom == Samples(secs, PathSteps)
             svg == [k \in 1..(Len(top) + Len(bottom)) |->
                        IF k <= Len(top)
                        THEN geometry_to_svg(tr, top[k][1], top[k][2], cue_length, max_radius)
                        ELSE geometry_to_svg(tr, bottom[k - Len(top)][1],
                                             Side(bottom[k - Len(top)][2]),
                                             cue_length, max_radius)]
             raising == {k \in DOMAIN svg : svg[k].kind = "raise"}
             path_points == [k \in DOMAIN svg |-> FormatPoint(svg[k].issues)]
         IN  IF raising # {}
             THEN svg[CHOOSE k \in raising : \A j \in raising : k <= j]
             ELSE ReturnPoints(path_points \o <<path_points[1]>>)

\* mutant: the walk back visits the sections in forward order
_generate_profile_path_ForwardTwice(secs) ==
    ProfilePath(secs, LAMBDA s, steps : BottomSamples(Reverse(s), steps), RatNeg)

_generate_profile_path(secs) == ProfilePath(secs, BottomSamples, RatNeg)

GenerateProfilePath ==
    /\ op' = "_generate_profile_path"
    /\ arg' = NoValue
    /\ result' = _generate_profile_path(sections)
    /\ UNCHANGED <<section, input_sections, sections, constructed, sections_data,
                 section_data, pattern_data, transform, db, first>>

(***************************************************************************)
(* GeometryOperations: outer profile and cross section                     *)
(***************************************************************************)
\* steps = 50
OutlineSteps == 50

\* points.append((x, radius)) in both loops; a point is <<x, radius>>
calculate_outer_profile(secs) ==
    ReturnPoints(TopSamples(secs, OutlineSteps) \o BottomSamples(secs, OutlineSteps))

CalculateOuterProfile ==
    /\ op' = "calculate_outer_profile"
    /\ arg' = NoValue
    /\ result' = calculate_outer_profile(sections)
    /\ UNCHANGED <<section, input_sections, sections, constructed, sections_data,
                 section_data, pattern_data, transform, db, first>>

\* return None
ReturnNone == [kind |-> "return_none", exc |-> "", msg |-> "", value |-> NoValue, issues |-> <<>>]

num_points == 64

\* the vertex (radius * cos(angle), radius * sin(angle)) for
\* angle = 2 * pi * i / num_points, kept in polar form
Vertex(radius, i) == [radius |-> radius, turn |-> Rat(i, num_points)]

calculate_cross_section(secs, x_position) ==
    LET i == get_section_at_position(secs, x_position)
    IN  IF i = 0
        THEN ReturnNone
        ELSE LET radius == CueSectionGeometry_radius_at_position(secs[i], x_position)
             IN  IF radius.kind = "raise"
                 THEN radius
                 ELSE ReturnPoints([k \in 1..num_points |-> Vertex(radius.value, k - 1)])

\* positions before, at the bounds of, inside and after the sections of
\* RenderSpans
CrossSectionPositions == {-100, 0, 150, 300, 600, 900}

CalculateCrossSection ==
    \E x \in CrossSectionPositions :
        /\ op' = "calculate_cross_section"
        /\ arg' = RatOfInt(x)
        /\ result' = calculate_cross_section(sections, RatOfInt(x))
        /\ UNCHANGED <<section, input_sections, sections, constructed, sections_data,
                     section_data, pattern_data, transform, db, first>>

\* few sections, a path having 42 points and an outline 102 for each:
\* abutting, the same twice, of length zero
RenderSpans == {<<0, 300>>, <<300, 600>>, <<0, 0>>}

RenderRecords ==
    {SectionRecord("forearm", sp[1], sp[2], dd[1], dd[2]) :
        sp \in RenderSpans, dd \in ProfileDiameters}

InitRender ==
    /\ section = NoSection
    /\ sections_data \in SeqsUpTo(RenderRecords, MaxSections)
    /\ input_sections = SectionsFromRecords(sections_data)
    /\ sections = CueDesignGeometry(input_sections)
    /\ constructed = TRUE
    /\ section_data = NoRecord
    /\ pattern_data = NoPattern
    /\ transform = NoTransform
    /\ db = NoDb
    /\ first = NoFirst
    /\ op = "init"
    /\ arg = NoValue
    /\ result = NoResult

NextRender == GenerateProfilePath \/ CalculateOuterProfile \/ CalculateCrossSection

SpecRender == InitRender /\ [][NextRender]_vars

\* the formatted point geometry_to_svg gives <<x, radius>> on the
\* generator's canvas
SvgPoint(x, radius) ==
    FormatPoint(geometry_to_svg(CoordinateTransform(SvgWidth, SvgHeight, SvgPadding),
                                RatOfInt(x), RatOfInt(radius),
                                total_length(sections).value,
                                _get_max_radius(sections)).issues)

\* the centerline, in tenths
CenterlineTenths == 10 * FloorHalf(SvgHeight)

\* points is the top edge section by section from start to end, then its
\* mirror image walked back, then the first point again
IsClosedOutline(points, n, steps, centerline, Top(_, _), Bottom(_, _)) ==
    /\ Len(points) = 2 * (steps + 1) * n + 1
    /\ points[Len(points)] = points[1]
    /\ \A j \in 1..n :
          /\ points[(j - 1) * (steps + 1) + 1]
                 = Top(sections[j].start.x, start_radius(sections[j]))
          /\ points[j * (steps + 1)] = Top(sections[j].end.x, end_radius(sections[j]))
          /\ points[2 * (steps + 1) * n + 1 - j * (steps + 1)]
                 = Bottom(sections[j].end.x, end_radius(sections[j]))
          /\ points[2 * (steps + 1) * n - (j - 1) * (steps + 1)]
                 = Bottom(sections[j].start.x, start_radius(sections[j]))
    /\ \A k \in 1..((steps + 1) * n) :
          /\ points[k][2] <= centerline
          /\ points[2 * (steps + 1) * n + 1 - k][2] >= centerline
          /\ points[2 * (steps + 1) * n + 1 - k][1] = points[k][1]
          /\ points[2 * (steps + 1) * n + 1 - k][2] - centerline
                 = centerline - points[k][2]

\* C25: for a design with at least one section, the path of the profile fill
\* has 21 samples per section along the top edge in section order (y at or
\* above the centerline), then 21 per section along the bottom edge in
\* reverse section order (y at or below it), then its first point again:
\* 42 n + 1 points, the last equal to the first.
C25_ProfilePath ==
    (op = "_generate_profile_path" /\ Len(sections) >= 1)
        => /\ result.kind = "return"
           /\ IsClosedOutline(result.issues, Len(sections), PathSteps, CenterlineTenths,
                              SvgPoint, LAMBDA x, radius : SvgPoint(x, - radius))

\* the same for the designs the path is computed of
C25_PathWhenComputed ==
    (op = "_generate_profile_path" /\ Len(sections) >= 1 /\ result.kind = "return")
        => IsClosedOutline(result.issues, Len(sections), PathSteps, CenterlineTenths,
                           SvgPoint, LAMBDA x, radius : SvgPoint(x, - radius))

\* points is the top edge <<x, radius>> section by section from start to
\* end, then its mirror image <<x, - radius>> walked back
IsMirroredOutline(points, n, steps) ==
    /\ Len(points) = 2 * (steps + 1) * n
    /\ \A j \in 1..n :
          /\ points[(j - 1) * (steps + 1) + 1]
                 = <<RatOfInt(sections[j].start.x), RatOfInt(start_radius(sections[j]))>>
          /\ points[j * (steps + 1)]
                 = <<RatOfInt(sections[j].end.x), RatOfInt(end_radius(sections[j]))>>
    /\ \A k \in 1..((steps + 1) * n) :
          points[2 * (steps + 1) * n + 1 - k] = <<points[k][1], RatNeg(points[k][2])>>

\* C26: calculate_outer_profile returns 2 * 51 * n points for n sections:
\* the first half is the top edge (x, +radius) forward across the sections,
\* the second half the bottom edge, the mirror image of the top edge across
\* the axis, walked backward.
C26_OuterProfile ==
    op = "calculate_outer_profile"
        => /\ result.kind = "return"
           /\ IsMirroredOutline(result.issues, Len(sections), OutlineSteps)

\* what the code returns instead: the top edge forward, then the top edge
\* again backward
C26_TopEdgeTwice ==
    op = "calculate_outer_profile"
        => /\ result.kind = "return"
           /\ Len(result.issues) = 2 * (OutlineSteps + 1) * Len(sections)
           /\ \A k \in 1..((OutlineSteps + 1) * Len(sections)) :
                 result.issues[2 * (OutlineSteps + 1) * Len(sections) + 1 - k]
                     = result.issues[k]

\* x lies outside every section of the design
OutsideEverySection(x) ==
    \A i \in 1..Len(sections) :
        RatLess(x, RatOfInt(sections[i].start.x)) \/ RatLess(RatOfInt(sections[i].end.x), x)

\* C27: calculate_cross_section(design, x) returns None, without raising,
\* iff x lies outside every section of the design; otherwise it returns a
\* polygon of 64 vertices, each at distance design.radius_at_position(x)
\* from the axis.
C27_CrossSection ==
    op = "calculate_cross_section"
        => /\ result = ReturnNone <=> OutsideEverySection(arg)
           /\ ~ OutsideEverySection(arg)
                 => /\ result.kind = "return"
                    /\ Len(result.issues) = num_points
                    /\ \A k \in 1..num_points :
                          /\ result.issues[k].turn = Rat(k - 1, num_points)
                          /\ Return(RatAbs(result.issues[k].radius))
                                 = CueDesignGeometry_radius_at_position(sections, arg)

\* the same for the positions at which no ZeroDivisionError is raised
C27_CrossSectionUnlessDivisionByZero ==
    (op = "calculate_cross_section" /\ result.exc # "ZeroDivisionError")
        => /\ result = ReturnNone <=> OutsideEverySection(arg)
           /\ ~ OutsideEverySection(arg)
                 => /\ result.kind = "return"
                    /\ Len(result.issues) = num_points
                    /\ \A k \in 1..num_points :
                          /\ result.issues[k].turn = Rat(k - 1, num_points)
                          /\ Return(RatAbs(result.issues[k].radius))
                                 = CueDesignGeometry_radius_at_position(sections, arg)

(***************************************************************************)
(* The stored records: CueDesign.clean and CueSection.clean                *)
(* overall_length_in and positions in mils, diameters in 0.01 mm           *)
(***************************************************************************)
CueDesign(overall_length_in) == [overall_length_in |-> overall_length_in]

MaxOverallLength == 40000

\* mutant: an overall length of 0 passes
CueDesign_clean_ZeroAllowed(design) ==
    IF design.overall_length_in < 0
    THEN Raise("ValidationError", "Overall length must be positive")
    ELSE IF design.overall_length_in > MaxOverallLength
         THEN Raise("ValidationError", "Overall length cannot exceed 40 inches")
         ELSE ReturnNone

CueDesign_clean(design) ==
    IF design.overall_length_in <= 0
    THEN Raise("ValidationError", "Overall length must be positive")
    ELSE IF design.overall_length_in > MaxOverallLength
         THEN Raise("ValidationError", "Overall length cannot exceed 40 inches")
         ELSE ReturnNone

PATTERN_CATEGORIES == {"boxed", "slash", "dot", "wrap", "inlay"}

\* an element of inlay_patterns: a dict of the three fields read, or a
\* number
InlayDict(pattern_id, pattern_category, pattern_style) ==
    [t |-> "dict",
     fields |-> [pattern_id |-> pattern_id, pattern_category |-> pattern_category,
                 pattern_style |-> pattern_style]]

InlayNumber ==
    [t |-> "int",
     fields |-> [pattern_id |-> Absent, pattern_category |-> Absent,
                 pattern_style |-> Absent]]

\* `field not in pattern` of a number is a TypeError
_validate_inlay_pattern(pattern) ==
    IF pattern.t # "dict"
    THEN Raise("TypeError", "argument is not iterable")
    ELSE IF \E field \in {"pattern_id", "pattern_category", "pattern_style"} :
                ~ HasKey(pattern.fields, field)
         THEN Raise("ValidationError", "Inlay pattern missing required field")
         ELSE IF ~ InList(pattern.fields["pattern_category"], PATTERN_CATEGORIES)
              THEN Raise("ValidationError", "Invalid pattern category")
              ELSE ReturnNone

\* the loop over inlay_patterns inside try / except (TypeError, ValueError)
InlayPatternLoop(inlay_patterns) ==
    LET failing == {k \in DOMAIN inlay_patterns :
                       _validate_inlay_pattern(inlay_patterns[k]).kind = "raise"}
        raised == _validate_inlay_pattern(
                      inlay_patterns[CHOOSE k \in failing : \A j \in failing : k <= j])
    IN  IF failing = {}
        THEN ReturnNone
        ELSE IF raised.exc \in {"TypeError", "ValueError"}
             THEN Raise("ValidationError", "Invalid inlay pattern structure")
             ELSE raised

CueSection_clean(self, cue_design, inlay_patterns) ==
    IF self.start_position_in >= self.end_position_in
    THEN Raise("ValidationError", "Start position must be less than end position")
    ELSE IF self.start_position_in < 0
    THEN Raise("ValidationError", "Start position cannot be negative")
    ELSE IF self.outer_diameter_start_mm <= 0 \/ self.outer_diameter_end_mm <= 0
    THEN Raise("ValidationError", "Outer diameters must be positive")
    ELSE IF self.outer_diameter_start_mm > MaxDiameter
            \/ self.outer_diameter_end_mm > MaxDiameter
    THEN Raise("ValidationError", "Outer diameters cannot exceed 50mm")
    ELSE IF self.end_position_in > cue_design.overall_length_in
    THEN Raise("ValidationError", "Section end position cannot exceed overall cue length")
    ELSE IF inlay_patterns # <<>>
    THEN InlayPatternLoop(inlay_patterns)
    ELSE ReturnNone

\* overall lengths: negative, zero, the least positive, usual, the
\* greatest allowed, the least too long
OverallLengths == {-5000, 0, 1, 29000, 40000, 40001}

CleanSections ==
    {SectionRecord("forearm", sp, ep, sd, ed) :
        sp \in {-1000, 0, 10000}, ep \in {0, 10000, 29000, 29001},
        sd \in {-100, 0, 2000, 5000, 5001}, ed \in {0, 2000, 5001}}

InlayPatternInputs ==
    {<<>>,
     <<InlayDict(StrValue("p1"), StrValue("boxed"), StrValue("window_box"))>>,
     <<InlayDict(StrValue("p1"), StrValue("boxed"), StrValue("window_box")),
       InlayDict(StrValue("p2"), StrValue("dot"), Absent)>>,
     <<InlayDict(StrValue("p1"), StrValue("zigzag"), StrValue("window_box"))>>,
     <<InlayNumber>>}

\* a section, the design it belongs to and the section's inlay_patterns
InitModels ==
    /\ section = NoSection
    /\ input_sections = <<>>
    /\ sections = <<>>
    /\ constructed = FALSE
    /\ sections_data = <<>>
    /\ section_data \in CleanSections
    /\ pattern_data \in InlayPatternInputs
    /\ transform = NoTransform
    /\ db \in {[designs |-> <<CueDesign(l)>>, sections |-> <<>>] : l \in OverallLengths}
    /\ first = NoFirst
    /\ op = "init"
    /\ arg = NoValue
    /\ result = NoResult

CleanDesign ==
    /\ op' = "CueDesign.clean"
    /\ arg' = NoValue
    /\ result' = CueDesign_clean(db.designs[1])
    /\ UNCHANGED <<section, input_sections, sections, constructed, sections_data,
                 section_data, pattern_data, transform, db, first>>

CleanSection ==
    /\ op' = "CueSection.clean"
    /\ arg' = NoValue
    /\ result' = CueSection_clean(section_data, db.designs[1], pattern_data)
    /\ UNCHANGED <<section, input_sections, sections, constructed, sections_data,
                 section_data, pattern_data, transform, db, first>>

NextModels == CleanDesign \/ CleanSection

SpecModels == InitModels /\ [][NextModels]_vars

RaisesValidationError == result.kind = "raise" /\ result.exc = "ValidationError"

\* C28: CueDesign.clean raises ValidationError iff overall_length_in <= 0 or
\* overall_length_in > 40 (a negative overall length is always rejected);
\* CueSection.clean raises ValidationError whenever start >= end, start < 0,
\* a diameter is <= 0 or > 50, or the end position exceeds the overall
\* length of the section's design.
C28_Clean ==
    /\ op = "CueDesign.clean"
          => /\ RaisesValidationError
                    <=> \/ db.designs[1].overall_length_in <= 0
                        \/ db.designs[1].overall_length_in > 40000
             /\ result.kind = "raise" => RaisesValidationError
    /\ op = "CueSection.clean"
          => ((\/ section_data.start_position_in >= section_data.end_position_in
               \/ section_data.start_position_in < 0
               \/ \E d \in {section_data.outer_diameter_start_mm,
                            section_data.outer_diameter_end_mm} : d <= 0 \/ d > 5000
               \/ section_data.end_position_in > db.designs[1].overall_length_in)
                  => RaisesValidationError)

\* a design of overall length -5.0 in is rejected
C28_Witness ==
    /\ op = "CueDesign.clean"
    /\ db.designs[1].overall_length_in = -5000
    /\ result = Raise("ValidationError", "Overall length must be positive")

\* every rule of the section is met and its one inlay pattern is sound: the
\* section passes
C28_SectionPasses ==
    (/\ op = "CueSection.clean"
     /\ section_data = SectionRecord("forearm", 0, 29000, 2000, 2000)
     /\ db.designs[1].overall_length_in = 29000
     /\ Len(pattern_data) = 1
     /\ pattern_data[1].fields["pattern_category"] = StrValue("boxed"))
        => result = ReturnNone

(***************************************************************************)
(* CueDesignCreateSerializer.create                                        *)
(***************************************************************************)
\* CueSection.objects.create(cue_design=cue_design, **section_data)
StoredSection(cue_design, data) == [cue_design |-> cue_design, data |-> data]

\* the database after CueDesign.objects.create and the loop of
\* CueSection.objects.create; a design is known by its place in designs
Persisted(database, design, data) ==
    [designs |-> Append(database.designs, design),
     sections |-> database.sections
                      \o [i \in 1..Len(data) |->
                             StoredSection(Len(database.designs) + 1, data[i])]]

\* cue_design.sections.all(), in the order of Meta.ordering
SectionsOf(database, cue_design) ==
    SortedByStartPosition(
        [i \in 1..Len(SelectSeq(database.sections, LAMBDA s : s.cue_design = cue_design))
            |-> SelectSeq(database.sections, LAMBDA s : s.cue_design = cue_design)[i].data])

\* the loop body begins with `from .geometry.core import ...`, a module
\* cues.api.geometry.core; importable says whether the installation has it
_create_geometry_from_db(database, cue_design, importable) ==
    IF SectionsOf(database, cue_design) # <<>> /\ ~ importable
    THEN Raise("ModuleNotFoundError", "No module named 'cues.api.geometry'")
    ELSE ReturnIssues(CueDesignGeometry(SectionsFromRecords(SectionsOf(database, cue_design))))

\* raise serializers.ValidationError({"geometry_validation": all_issues})
_validate_geometry(geometry) ==
    LET all_issues == validate_continuity(geometry).issues
                          \o CueDesignGeometry_validate_manufacturing_constraints(geometry).issues
    IN  IF all_issues # <<>>
        THEN [Raise("ValidationError", "geometry_validation") EXCEPT !.issues = all_issues]
        ELSE ReturnNone

\* the outcome of create on the database it has written to
create(written, cue_design, importable) ==
    LET geometry == _create_geometry_from_db(written, cue_design, importable)
    IN  IF geometry.kind = "raise"
        THEN geometry
        ELSE IF _validate_geometry(geometry.issues).kind = "raise"
             THEN _validate_geometry(geometry.issues)
             ELSE Return(RatOfInt(cue_design))

\* the sections of a request: halves and parts of a 20 in design, abutting,
\* overlapping or apart, of equal or different diameters
InitCreate ==
    /\ section = NoSection
    /\ input_sections = <<>>
    /\ sections = <<>>
    /\ constructed = FALSE
    /\ sections_data \in SeqsUpTo(PipelineRecords, MaxSections)
    /\ section_data = NoRecord
    /\ pattern_data = NoPattern
    /\ transform = NoTransform
    /\ db = NoDb
    /\ first = NoFirst
    /\ op = "init"
    /\ arg = NoValue
    /\ result = NoResult

\* one request, for a design of 29 in, on an empty database; nothing undoes
\* the writes when the geometry is rejected
Create ==
    \E importable \in BOOLEAN :
        /\ db.designs = <<>>
        /\ db' = Persisted(db, CueDesign(29000), sections_data)
        /\ op' = "create"
        /\ arg' = NoValue
        /\ result' = create(db', Len(db'.designs), importable)
        /\ UNCHANGED <<section, input_sections, sections, constructed, sections_data,
                     section_data, pattern_data, transform, first>>

NextCreate == Create

SpecCreate == InitCreate /\ [][NextCreate]_vars

\* the continuity and manufacturing issues of the last design stored
IssuesOfStored(database) ==
    LET geometry ==
            CueDesignGeometry(
                SectionsFromRecords(SectionsOf(database, Len(database.designs))))
    IN  validate_continuity(geometry).issues
            \o CueDesignGeometry_validate_manufacturing_constraints(geometry).issues

\* C30: create is all-or-nothing with respect to geometry validation: when
\* the continuity or manufacturing validation reports an issue, so that
\* create fails with a validation error, no design record and no section
\* record of the request remains persisted; when create succeeds, the
\* persisted design has no continuity or manufacturing issue.
C30_AllOrNothing ==
    [][op' = "create"
          => /\ (result'.kind = "raise" /\ result'.exc = "ValidationError") => db' = db
             /\ result'.kind = "return" => IssuesOfStored(db') = <<>>]_vars

\* the half that holds: a design create returns has no issue
C30_ReturnedMeansSound ==
    [][(op' = "create" /\ result'.kind = "return") => IssuesOfStored(db') = <<>>]_vars

\* what the code does: the design and every section of the request are
\* stored whatever create's outcome
C30_StoredWhateverTheOutcome ==
    [][op' = "create"
          => /\ Len(db'.designs) = Len(db.designs) + 1
             /\ Len(db'.sections) = Len(db.sections) + Len(sections_data)]_vars

====
